---- MODULE Spec2Model ----
(***************************************************************************)
(* Model of the CEC command-queue engine of vdr-plugin-cecremote           *)
(* (cCECRemote, cCmd): one worker thread (cCECRemote::Action) draining     *)
(* mWorkerQueue and, inside Exec, mExecQueue; producer threads calling     *)
(* PushCmd, PushCmdQueue, PushWaitCmd and Reconnect; the forked child.     *)
(*                                                                         *)
(* cCondWait is VDR's class (thread.c): one sticky flag `signaled`;        *)
(* Signal() sets it, Wait(ms) returns it and clears it, returning false    *)
(* after the timeout if it was never set.  The three cCondWait members of  *)
(* cCECRemote are therefore modelled as BOOLEAN variables.                 *)
(***************************************************************************)
EXTENDS Integers, Sequences, FiniteSets, TLC

(***************************************************************************)
(* Bounds of the model.                                                    *)
(***************************************************************************)
\* Number of commands the producers append in one behaviour of Spec (SpecWrap
\* explores one submission more).
MaxCmds == 2
\* Wrap bound of the serial counter of cCmd::getSerial in the engine model
\* (the program wraps at SERIAL_WRAP; the engine is explored with a scaled
\* counter so that a wrap-around is reachable within a few submissions).
SerialWrap == 2

(***************************************************************************)
(* Program constants.                                                      *)
(***************************************************************************)
\* cmd.cc:79  if (serial > 10000) serial = 1;
SERIAL_WRAP == 10000
\* libcec: CECDEVICE_UNKNOWN
CECDEVICE_UNKNOWN == -1
\* cmd.h: int mSerial = -1
NO_SERIAL == -1
\* libcec: CECDEVICE_TV, the logical address of the TV
CECDEVICE_TV == 0
\* cecremote.cc: for (int j = 0; j < 16; j++)
NUM_SLOTS == 16
\* the "cnt < 50" of WaitForPowerStatus
PollLimit == 50
\* libcec: the largest cec_user_control_code, and the code for "no key"
CEC_USER_CONTROL_CODE_MAX == 150
CEC_USER_CONTROL_CODE_UNKNOWN == 255

\* The threads that call PushWaitCmd: the SVDRP handler (CONN, DISC) and
\* VDR's main thread (Stop's exit).
Waiters == {"svdrp", "main"}

(***************************************************************************)
(* cCECDevice and cCmd (cmd.h)                                             *)
(***************************************************************************)
\* cCECDevice(): mPhysicalAddress(0), both logical addresses unknown
cCECDevice == [mPhysicalAddress |-> 0,
               mLogicalAddressDefined |-> CECDEVICE_UNKNOWN,
               mLogicalAddressUsed |-> CECDEVICE_UNKNOWN]

\* A configured <device> with physical address 1.0.0.0 and logical address 4
DevPlayer == [mPhysicalAddress |-> 4096,
              mLogicalAddressDefined |-> 4,
              mLogicalAddressUsed |-> CECDEVICE_UNKNOWN]

\* cCmd(CECCommand cmd, int val, cCECDevice *dev, std::string exec): mSerial
\* stays -1.  id is a history field: the position of the command in the
\* order of all appends (0: not appended, e.g. the synthesized exit of
\* WaitExec); live records whether a forked child was alive during the
\* whole submission.
cCmd(kind, dev) == [mCmd |-> kind, mSerial |-> NO_SERIAL, mDevice |-> dev,
                    id |-> 0, live |-> FALSE]

\* cCmd() = default: CEC_INVALID
InvalidCmd == cCmd("CEC_INVALID", cCECDevice)

\* The command kind PushCmd is called with in the model: the key press
\* callback's cCmd(CEC_KEYRPRESS, keycode).
PushCmdKinds == {"CEC_KEYRPRESS"}

\* The command kinds each thread calls PushWaitCmd with: SVDRPCommand's DISC
\* and CONN (cecremoteplugin.cc), and the exit of Stop().
PushWaitKinds(t) == IF t = "svdrp" THEN {"CEC_CONNECT", "CEC_DISCONNECT"}
                    ELSE {"CEC_EXIT"}

\* Configured command lists (onStart, onStop, a menu's or a key's list ...)
\* that PushCmdQueue is called with.
CmdLists == { << cCmd("CEC_EXECSHELL", cCECDevice) >>,
              << cCmd("CEC_POWERON", DevPlayer), cCmd("CEC_MAKEACTIVE", cCECDevice) >>,
              << cCmd("CEC_POWEROFF", DevPlayer) >> }

\* The lists of the power-toggle menu, which cPluginCecremote::ExecToggle puts
\* into cCmd(CEC_EXECTOGGLE, menu.mDevice, menu.mOnPowerOn, menu.mOnPowerOff).
OnPowerOn == << cCmd("CEC_POWERON", DevPlayer), cCmd("CEC_MAKEACTIVE", cCECDevice) >>
OnPowerOff == << cCmd("CEC_POWEROFF", DevPlayer) >>

\* Configured <onstart> and <onmanualstart> lists.
OnStart == << cCmd("CEC_POWERON", DevPlayer) >>
OnManualStart == << cCmd("CEC_MAKEACTIVE", cCECDevice) >>

\* The device of a command PushWaitCmd is called with: the menu's device for
\* the toggle, none for connect, disconnect and exit.
DeviceOf(kind) == IF kind = "CEC_EXECTOGGLE" THEN DevPlayer ELSE cCECDevice

(***************************************************************************)
(* The live bus as the adapter reports it.                                 *)
(***************************************************************************)
Slots == 0 .. (NUM_SLOTS - 1)

\* No device active, nothing answers a poll; the host is logical address 1.
BusEmpty == [active |-> {}, phys |-> [j \in Slots |-> 0], own |-> {1}, poll |-> {}]

\* The player is active at logical address 4 with physical address 1.0.0.0.
BusPlayer == [active |-> {0, 1, 4},
              phys |-> [j \in Slots |-> IF j = 4 THEN 4096 ELSE IF j = 1 THEN 8192 ELSE 0],
              own |-> {1}, poll |-> {0, 4}]

Buses == {BusEmpty, BusPlayer}

VARIABLES
    mWorkerQueue,      \* cCmdQueue mWorkerQueue
    mExecQueue,        \* cCmdQueue mExecQueue
    mWorkerQueueWait,  \* cCondWait mWorkerQueueWait: its signaled flag
    mExecQueueWait,    \* cCondWait mExecQueueWait: its signaled flag
    mCmdReady,         \* cCondWait mCmdReady: its signaled flag
    mProcessedSerial,  \* std::atomic<int> mProcessedSerial
    mInExec,           \* std::atomic<bool> mInExec
    mCECAdapter,       \* ICECAdapter *mCECAdapter: "nullptr" or "adapter"
    adapterOpen,       \* the adapter behind mCECAdapter has been opened
    libHandles,        \* adapters created by LibCecInitialise and not unloaded
    serial,            \* static int serial of cCmd::getSerial
    running,           \* cThread::Running() of the worker
    wpc,               \* position of the worker thread
    wret,              \* where the running Connect() returns to
    cmd,               \* local cmd of Action
    ecmd,              \* local cmd of Exec
    child,             \* the forked child: "none", "alive", "exited"
    addr,              \* local addr of Action
    calls,             \* adapter methods called for the current command
    ppc, pcmd, proute, psig,   \* PushWaitCmd callers: position, cmd, queue, signaled
    qlist,             \* the list a PushCmdQueue caller is about to append
    apc,               \* the alert callback thread inside Reconnect()
    nAppended,         \* history: number of commands appended so far
    budget,            \* the number of commands this behaviour may append
    mSerialMutex,      \* static cMutex mSerialMutex of getSerial: its owner or "free"
    gpc,               \* position of each thread inside getSerial
    gtmp,              \* the value of serial each thread inside getSerial has loaded
    gidx,              \* history: the number of the allocation each thread is making
    gAllocs,           \* history: number of allocations started
    lastAlloc,         \* history: number and value of the last allocation returned
    cbpc,              \* where the adapter's thread is inside CecCommandCallback
    cbUse,             \* history: the handle the callback called ToString on
    lbus,              \* history: the bus as the adapter reported it to getLogical
    startConn,         \* history: how the Connect() at the start of Action ended
    wfpc,              \* position of the worker inside WaitForPowerStatus
    newstatus,         \* parameter newstatus of WaitForPowerStatus
    wfstatus,          \* local status of WaitForPowerStatus
    cnt,               \* local cnt of WaitForPowerStatus
    lastkey,           \* static cec_user_control_code lastkey of CecKeyPressCallback
    kev,               \* history: the key event the adapter delivered last
    nEvents,           \* history: number of key events delivered
    mMonitorStatus,    \* cStatusMonitor::mMonitorStatus
    mVolume,           \* cStatusMonitor::mVolume
    note,              \* history: the last notification and what it submitted
    seen,              \* history: notifications received so far, by kind
    power,             \* the power status the toggled device reports
    device,            \* a cCECDevice instance passed to getLogical by reference
    res,               \* the last getLogical(device): result and adapter queries
    mDeferredStartup,  \* std::atomic<bool> mDeferredStartup
    mStartManually,    \* cPluginCecremote::mStartManually
    hpc,               \* position of the host thread inside Startup()
    spc,               \* position of the main thread inside Stop()
    offThread,         \* adapter methods called by a thread other than the worker
    elapsed,           \* PushWaitCmd callers: time in the current Wait and in all
    log,               \* history: the commands popped, in pop order
    done,              \* history: ids of the commands whose dispatch finished
    pubs,              \* history: ids for which mProcessedSerial was stored
    sigs               \* history: ids for which mCmdReady.Signal() was called

qvars == <<mWorkerQueue, mExecQueue, mWorkerQueueWait, mExecQueueWait>>
avars == <<mCECAdapter, adapterOpen, libHandles>>
wvars == <<wpc, wret, cmd, ecmd, addr, running>>
pvars == <<ppc, pcmd, proute, psig>>
hvars == <<log, done, pubs, sigs>>
gvars == <<mSerialMutex, gpc, gtmp, gidx, gAllocs, lastAlloc>>
cvars == <<cbpc, cbUse>>
pollvars == <<wfpc, newstatus, wfstatus, cnt>>
kvars == <<lastkey, kev, nEvents>>
svars == <<mMonitorStatus, mVolume, note, seen>>
mvars == <<pollvars, kvars, svars>>
\* the engine, and the other threads around it
evars == <<qvars, avars, wvars, pvars, hvars, mCmdReady, mProcessedSerial, mInExec,
           serial, child, calls, qlist, apc, nAppended, budget>>
xrest == <<startConn, cvars, lbus, gvars, power, device, res, mDeferredStartup, mStartManually,
           hpc, spc, offThread, elapsed>>
xvars == <<startConn, mvars, cvars, lbus, gvars, power, device, res, mDeferredStartup, mStartManually, hpc, spc, offThread, elapsed>>
vars == <<qvars, avars, wvars, pvars, hvars, mCmdReady, mProcessedSerial, mInExec,
          serial, child, calls, qlist, apc, nAppended, budget, xvars>>

(***************************************************************************)
(* cCmd::getSerial (cmd.cc:73-85): under mSerialMutex, advance the static  *)
(* counter, wrap it past the bound to 1, and return it.                    *)
(***************************************************************************)
getSerial(s, wrap) == IF s + 1 > wrap THEN 1 ELSE s + 1

(***************************************************************************)
(* cCECRemote::getLogical (cecremote.cc), called with mCECAdapter set.     *)
(* The result is the returned address, the descriptor as the call leaves   *)
(* it, and the adapter methods the call invoked.                           *)
(***************************************************************************)
RECURSIVE ScanSlots_KeepScanning(_, _, _, _)
\* A scan that goes on after the match on the defined logical address.
ScanSlots_KeepScanning(dev, bus, j, found) ==
    IF j >= NUM_SLOTS THEN [exact |-> FALSE, found |-> found]
    ELSE IF j \in bus.active /\ dev.mPhysicalAddress = bus.phys[j]
         THEN ScanSlots_KeepScanning(dev, bus, j + 1, j)
         ELSE ScanSlots_KeepScanning(dev, bus, j + 1, found)

RECURSIVE ScanSlots(_, _, _, _)
\* for (int j = 0; j < 16; j++): found and used as the loop leaves them;
\* exact when the loop returned from inside on the defined logical address.
ScanSlots(dev, bus, j, found) ==
    IF j >= NUM_SLOTS THEN [exact |-> FALSE, found |-> found]
    ELSE IF j \in bus.active /\ dev.mPhysicalAddress = bus.phys[j]
         THEN IF dev.mLogicalAddressDefined = j
              THEN [exact |-> TRUE, found |-> j]
              ELSE ScanSlots(dev, bus, j + 1, j)
         ELSE ScanSlots(dev, bus, j + 1, found)

\* A lookup that falls back to the defined address without testing it
\* against the host's own addresses.
LookupLogical_NoOwnTest(dev, bus) ==
         LET scan == IF dev.mPhysicalAddress # 0
                     THEN ScanSlots(dev, bus, 0, CECDEVICE_UNKNOWN)
                     ELSE [exact |-> FALSE, found |-> CECDEVICE_UNKNOWN]
         IN IF scan.found # CECDEVICE_UNKNOWN
            THEN [addr |-> scan.found,
                  dev |-> [dev EXCEPT !.mLogicalAddressUsed = scan.found],
                  queries |-> {"GetActiveDevices", "GetDevicePhysicalAddress"}]
            ELSE IF dev.mLogicalAddressDefined = CECDEVICE_UNKNOWN
                    \/ dev.mLogicalAddressDefined \notin bus.poll
            THEN [addr |-> CECDEVICE_UNKNOWN, dev |-> dev, queries |-> {"PollDevice"}]
            ELSE [addr |-> dev.mLogicalAddressDefined,
                  dev |-> [dev EXCEPT !.mLogicalAddressUsed = dev.mLogicalAddressDefined],
                  queries |-> {"PollDevice"}]

\* getLogical past the test of the cached address: the lookup by physical
\* address, then the configured logical address as the last attempt.
LookupLogical(dev, bus) ==
         LET scan == IF dev.mPhysicalAddress # 0
                     THEN ScanSlots(dev, bus, 0, CECDEVICE_UNKNOWN)
                     ELSE [exact |-> FALSE, found |-> CECDEVICE_UNKNOWN]
             q1 == IF dev.mPhysicalAddress # 0
                   THEN {"GetActiveDevices"} \cup
                        (IF bus.active # {} THEN {"GetDevicePhysicalAddress"} ELSE {})
                   ELSE {}
         IN IF scan.found # CECDEVICE_UNKNOWN
            THEN [addr |-> scan.found,
                  dev |-> [dev EXCEPT !.mLogicalAddressUsed = scan.found],
                  queries |-> q1]
            ELSE IF dev.mLogicalAddressDefined = CECDEVICE_UNKNOWN
            THEN [addr |-> CECDEVICE_UNKNOWN, dev |-> dev, queries |-> q1]
            ELSE IF dev.mLogicalAddressDefined \in bus.own
            THEN [addr |-> CECDEVICE_UNKNOWN, dev |-> dev,
                  queries |-> q1 \cup {"GetLogicalAddresses"}]
            ELSE IF dev.mLogicalAddressDefined \notin bus.poll
            THEN [addr |-> CECDEVICE_UNKNOWN, dev |-> dev,
                  queries |-> q1 \cup {"GetLogicalAddresses", "PollDevice"}]
            ELSE [addr |-> dev.mLogicalAddressDefined,
                  dev |-> [dev EXCEPT !.mLogicalAddressUsed = dev.mLogicalAddressDefined],
                  queries |-> q1 \cup {"GetLogicalAddresses", "PollDevice"}]

\* A getLogical that looks the device up on the bus although its address is
\* cached.
getLogical_NoCache(dev, bus) == LookupLogical(dev, bus)

getLogical(dev, bus) ==
    IF dev.mLogicalAddressUsed # CECDEVICE_UNKNOWN
    THEN [addr |-> dev.mLogicalAddressUsed, dev |-> dev, queries |-> {}]
    ELSE LookupLogical(dev, bus)

(***************************************************************************)
(* Initial state: the object as constructed, the worker thread started.    *)
(***************************************************************************)
Constructed ==
    /\ mWorkerQueue = << >>
    /\ mExecQueue = << >>
    /\ mWorkerQueueWait = FALSE
    /\ mExecQueueWait = FALSE
    /\ mCmdReady = FALSE
    /\ mProcessedSerial = NO_SERIAL
    /\ mInExec = FALSE
    /\ mCECAdapter = "nullptr"
    /\ adapterOpen = FALSE
    /\ libHandles = 0
    /\ serial = 1
    /\ running = TRUE
    /\ wpc = "start"
    /\ wret = "start"
    /\ cmd = InvalidCmd
    /\ ecmd = InvalidCmd
    /\ addr = CECDEVICE_UNKNOWN
    /\ child = "none"
    /\ calls = {}
    /\ ppc = [t \in Waiters |-> "idle"]
    /\ pcmd = [t \in Waiters |-> InvalidCmd]
    /\ proute = [t \in Waiters |-> "worker"]
    /\ psig = [t \in Waiters |-> FALSE]
    /\ qlist = << >>
    /\ apc = "idle"
    /\ nAppended = 0
    /\ log = << >>
    /\ done = {}
    /\ pubs = {}
    /\ sigs = {}

\* No thread is inside getSerial and no serial has been allocated.
SerialIdle ==
    /\ mSerialMutex = "free"
    /\ gpc = [t \in Waiters |-> "idle"]
    /\ gtmp = [t \in Waiters |-> 0]
    /\ gidx = [t \in Waiters |-> 0]
    /\ gAllocs = 0
    /\ lastAlloc = [idx |-> 0, val |-> 0]

\* No getLogical call has returned yet.
NoResult == [addr |-> CECDEVICE_UNKNOWN, queries |-> {}]

\* Startup() and its start lists are not part of the behaviour (the
\* configured onStart, onManualStart and onStop lists are empty), no device is
\* toggled and time is not measured.
\* No inbound command is being delivered.
CallbackIdle ==
    /\ cbpc = "idle"
    /\ cbUse = "none"

\* WaitForPowerStatus has not been called.
PollIdle ==
    /\ wfpc = "idle"
    /\ newstatus = "CEC_POWER_STATUS_ON"
    /\ wfstatus = "uninitialized"
    /\ cnt = 0

\* No key event has been delivered: lastkey has its initialiser.
KeyIdle ==
    /\ lastkey = CEC_USER_CONTROL_CODE_UNKNOWN
    /\ kev = [keycode |-> CEC_USER_CONTROL_CODE_UNKNOWN, duration |-> 0]
    /\ nEvents = 0

\* cStatusMonitor(plugin): the members' default initialisers; no notification
\* has been received.
MonitorIdle ==
    /\ mMonitorStatus = "UNKNOWN"
    /\ mVolume = 0
    /\ note = [kind |-> "none", sub |-> << >>]
    /\ seen = [volume |-> 0, switch |-> 0, replay |-> 0, other |-> 0]

HostIdle ==
    /\ SerialIdle
    /\ CallbackIdle
    /\ lbus = BusEmpty
    /\ startConn = "none"
    /\ PollIdle
    /\ KeyIdle
    /\ MonitorIdle
    /\ power = "standby"
    /\ device = cCECDevice
    /\ res = NoResult
    /\ mDeferredStartup = FALSE
    /\ mStartManually = FALSE
    /\ hpc = "done"
    /\ spc = "none"
    /\ offThread = {}
    /\ elapsed = [t \in Waiters |-> [wait |-> 0, total |-> 0]]

Init == Constructed /\ HostIdle /\ budget = MaxCmds

\* The same engine, explored one submission deeper.
InitWrap == Constructed /\ HostIdle /\ budget = MaxCmds + 1

(***************************************************************************)
(* The worker thread: cCECRemote::Action and what it calls.                *)
(***************************************************************************)
\* while (Running()) at the head of Action's loop
LoopHead == IF running THEN "wait" ELSE "stopped"

\* Back at the head of the loop addr holds no value that is read again (it is
\* assigned before every use), and the record of adapter calls starts anew.
LoopLocals ==
    /\ addr' = CECDEVICE_UNKNOWN
    /\ calls' = {}

\* The end of a case of Action's switch: the dispatch of cmd has finished.
EndSwitch ==
    /\ wpc' = "store"
    /\ done' = done \cup {cmd.id}

\* The end of a case of the switch of Exec's loop.
EndExecSwitch ==
    /\ wpc' = "estore"
    /\ done' = IF ecmd.id # 0 THEN done \cup {ecmd.id} ELSE done

\* Action(): Connect() before the loop
Action_Start ==
    /\ wpc = "start"
    /\ wpc' = "connect"
    /\ wret' = "start"
    /\ UNCHANGED <<budget, xvars, qvars, avars, pvars, hvars, cmd, ecmd, addr, running, mCmdReady,
                   mProcessedSerial, mInExec, serial, child, calls, qlist, apc, nAppended>>

\* Where Connect() returns to.
ConnectReturn ==
    IF wret = "start" THEN wpc' = LoopHead /\ done' = done
    ELSE IF wret = "action" THEN EndSwitch
    ELSE EndExecSwitch

\* Connect() returns: the history of the first call, the one Action makes
\* before its loop, records whether it left the adapter open.
ConnectEnds ==
    startConn' = IF wret # "start" THEN startConn
                 ELSE IF adapterOpen' THEN "ok" ELSE "failed"

\* A Connect() that lacks the "Ignore Connect" test and initialises the
\* library whatever mCECAdapter holds.
Connect_Init_Unguarded ==
    /\ wpc = "connect"
    /\ \E ok \in BOOLEAN :
         IF ok
         THEN /\ mCECAdapter' = "adapter"
              /\ libHandles' = libHandles + 1
              /\ wpc' = "open"
              /\ UNCHANGED <<adapterOpen, done, startConn>>
         ELSE /\ ConnectReturn
              /\ UNCHANGED avars
              /\ ConnectEnds
    /\ UNCHANGED <<budget, mvars, cvars, lbus, gvars, power, device, res, mDeferredStartup, mStartManually,
                   hpc, spc, offThread, elapsed, qvars, pvars, log, pubs, sigs, wret, cmd, ecmd, addr, running,
                   mCmdReady, mProcessedSerial, mInExec, serial, child, calls, qlist,
                   apc, nAppended>>

\* Connect(): "Ignore Connect" when mCECAdapter is set; else LibCecInitialise,
\* which may fail.
Connect_Init ==
    /\ wpc = "connect"
    /\ IF mCECAdapter # "nullptr"
       THEN /\ ConnectReturn
            /\ UNCHANGED avars
            /\ ConnectEnds
       ELSE \E ok \in BOOLEAN :
              IF ok
              THEN /\ mCECAdapter' = "adapter"
                   /\ libHandles' = libHandles + 1
                   /\ wpc' = "open"
                   /\ UNCHANGED <<adapterOpen, done, startConn>>
              ELSE /\ ConnectReturn
                   /\ UNCHANGED avars
                   /\ ConnectEnds
    /\ UNCHANGED <<budget, mvars, cvars, lbus, gvars, power, device, res, mDeferredStartup, mStartManually,
                   hpc, spc, offThread, elapsed, qvars, pvars, log, pubs, sigs, wret, cmd, ecmd, addr, running,
                   mCmdReady, mProcessedSerial, mInExec, serial, child, calls, qlist,
                   apc, nAppended>>

\* list with its commands numbered n+1, n+2, ... in append order
Numbered(list, n) == [i \in 1 .. Len(list) |-> [list[i] EXCEPT !.id = n + i]]

\* The lists Startup() pushes when the adapter is set: the manual-start list
\* when the start was manual, then the start list.
StartLists == (IF mStartManually THEN OnManualStart ELSE << >>) \o OnStart

\* A Connect() that returns from a failed DetectAdapters or Open without
\* unloading the library and without resetting mCECAdapter.
Connect_Open_KeepsHandle ==
    /\ wpc = "open"
    /\ \E ok \in BOOLEAN :
         IF ok
         THEN /\ adapterOpen' = TRUE
              /\ UNCHANGED <<mCECAdapter, libHandles>>
              /\ IF mDeferredStartup
                 THEN /\ mDeferredStartup' = FALSE
                      /\ mWorkerQueue' = mWorkerQueue \o Numbered(StartLists, nAppended)
                      /\ mWorkerQueueWait' = TRUE
                      /\ nAppended' = nAppended + Len(StartLists)
                 ELSE UNCHANGED <<mDeferredStartup, mWorkerQueue, mWorkerQueueWait,
                                  nAppended>>
         ELSE /\ UNCHANGED <<mCECAdapter, libHandles, adapterOpen, mDeferredStartup, mWorkerQueue,
                             mWorkerQueueWait, nAppended>>
    /\ ConnectReturn
    /\ ConnectEnds
    /\ UNCHANGED <<budget, mvars, cvars, lbus, gvars, power, device, res, mStartManually, hpc, spc, offThread, elapsed,
                   mExecQueue, mExecQueueWait, pvars, log, pubs, sigs, wret, cmd, ecmd,
                   addr, running, mCmdReady, mProcessedSerial, mInExec, serial, child,
                   calls, qlist, apc>>

\* Connect(): DetectAdapters and Open; on failure UnloadLibCec and
\* mCECAdapter = nullptr. On success, if (mDeferredStartup) the flag is
\* cleared and Startup() is called, which finds the adapter set and pushes the
\* start lists.
Connect_Open ==
    /\ wpc = "open"
    /\ \E ok \in BOOLEAN :
         IF ok
         THEN /\ adapterOpen' = TRUE
              /\ UNCHANGED <<mCECAdapter, libHandles>>
              /\ IF mDeferredStartup
                 THEN /\ mDeferredStartup' = FALSE
                      /\ mWorkerQueue' = mWorkerQueue \o Numbered(StartLists, nAppended)
                      /\ mWorkerQueueWait' = TRUE
                      /\ nAppended' = nAppended + Len(StartLists)
                 ELSE UNCHANGED <<mDeferredStartup, mWorkerQueue, mWorkerQueueWait,
                                  nAppended>>
         ELSE /\ mCECAdapter' = "nullptr"
              /\ libHandles' = libHandles - 1
              /\ UNCHANGED <<adapterOpen, mDeferredStartup, mWorkerQueue,
                             mWorkerQueueWait, nAppended>>
    /\ ConnectReturn
    /\ ConnectEnds
    /\ UNCHANGED <<budget, mvars, cvars, lbus, gvars, power, device, res, mStartManually, hpc, spc, offThread, elapsed,
                   mExecQueue, mExecQueueWait, pvars, log, pubs, sigs, wret, cmd, ecmd,
                   addr, running, mCmdReady, mProcessedSerial, mInExec, serial, child,
                   calls, qlist, apc>>

\* Disconnect(): SetInactiveView, Close and UnloadLibCec when the adapter is
\* set; then mCECAdapter = nullptr.
Disconnect ==
    /\ mCECAdapter' = "nullptr"
    /\ adapterOpen' = FALSE
    /\ libHandles' = IF mCECAdapter # "nullptr" THEN libHandles - 1 ELSE libHandles
    /\ calls' = IF mCECAdapter # "nullptr"
                THEN calls \cup {"SetInactiveView", "Close"} ELSE calls

\* WaitCmd(): wait on mWorkerQueueWait while the queue is empty, then pop the
\* front.
WaitCmd ==
    /\ wpc = "wait"
    /\ IF mWorkerQueue = << >>
       THEN /\ mWorkerQueueWait
            /\ mWorkerQueueWait' = FALSE
            /\ UNCHANGED <<mWorkerQueue, cmd, wpc, log, calls>>
       ELSE /\ cmd' = Head(mWorkerQueue)
            /\ mWorkerQueue' = Tail(mWorkerQueue)
            /\ log' = Append(log, [cmd |-> Head(mWorkerQueue), from |-> "worker"])
            /\ wpc' = "action"
            /\ UNCHANGED <<mWorkerQueueWait, calls>>
    /\ UNCHANGED <<budget, xvars, mExecQueue, mExecQueueWait, avars, pvars, done, pubs, sigs, wret,
                   ecmd, addr, running, mCmdReady, mProcessedSerial, mInExec, serial,
                   child, qlist, apc, nAppended>>

\* case CEC_KEYRPRESS: the keys of the key map are Put to VDR.
Action_KeyPress ==
    /\ wpc = "action"
    /\ cmd.mCmd = "CEC_KEYRPRESS"
    /\ EndSwitch
    /\ UNCHANGED <<budget, xvars, qvars, avars, pvars, log, pubs, sigs, wret, cmd, ecmd, addr, running,
                   mCmdReady, mProcessedSerial, mInExec, serial, child, calls, qlist,
                   apc, nAppended>>

\* The name of the power request of a power command.
PowerRequest(kind) == IF kind = "CEC_POWERON" THEN "PowerOnDevices" ELSE "StandbyDevices"

\* The adapter methods case CEC_POWERON / CEC_POWEROFF calls once
\* getLogical has returned a: the power request when a is known, and
\* WaitForPowerStatus in the else branch of
\*   if ((addr != CECDEVICE_UNKNOWN) && (!request(addr))) ... else ...
PowerCalls(kind, a, ok) ==
    (IF a # CECDEVICE_UNKNOWN THEN {PowerRequest(kind)} ELSE {}) \cup
    (IF a # CECDEVICE_UNKNOWN /\ ~ok THEN {} ELSE {"GetDevicePowerStatus"})

\* case CEC_POWERON, case CEC_POWEROFF
Action_Power ==
    /\ wpc = "action"
    /\ cmd.mCmd \in {"CEC_POWERON", "CEC_POWEROFF"}
    /\ IF mCECAdapter # "nullptr"
       THEN \E bus \in Buses, ok \in BOOLEAN :
              LET r == getLogical(cmd.mDevice, bus) IN
              /\ addr' = r.addr
              /\ cmd' = [cmd EXCEPT !.mDevice = r.dev]
              /\ calls' = calls \cup r.queries \cup PowerCalls(cmd.mCmd, r.addr, ok)
       ELSE UNCHANGED <<addr, cmd, calls>>
    /\ EndSwitch
    /\ UNCHANGED <<budget, xvars, qvars, avars, pvars, log, pubs, sigs, wret, ecmd, running,
                   mCmdReady, mProcessedSerial, mInExec, serial, child, qlist,
                   apc, nAppended>>

\* A case CEC_MAKEACTIVE without the test of mCECAdapter.
Action_MakeActive_NoTest ==
    /\ wpc = "action"
    /\ cmd.mCmd = "CEC_MAKEACTIVE"
    /\ calls' = calls \cup {"SetActiveSource"}
    /\ EndSwitch
    /\ UNCHANGED <<budget, xvars, qvars, avars, pvars, log, pubs, sigs, wret, cmd, ecmd, addr, running,
                   mCmdReady, mProcessedSerial, mInExec, serial, child, qlist,
                   apc, nAppended>>

\* case CEC_MAKEACTIVE
Action_MakeActive ==
    /\ wpc = "action"
    /\ cmd.mCmd = "CEC_MAKEACTIVE"
    /\ calls' = IF mCECAdapter # "nullptr" THEN calls \cup {"SetActiveSource"} ELSE calls
    /\ EndSwitch
    /\ UNCHANGED <<budget, xvars, qvars, avars, pvars, log, pubs, sigs, wret, cmd, ecmd, addr, running,
                   mCmdReady, mProcessedSerial, mInExec, serial, child, qlist,
                   apc, nAppended>>

\* case CEC_MAKEINACTIVE
Action_MakeInactive ==
    /\ wpc = "action"
    /\ cmd.mCmd = "CEC_MAKEINACTIVE"
    /\ calls' = IF mCECAdapter # "nullptr" THEN calls \cup {"SetInactiveView"} ELSE calls
    /\ EndSwitch
    /\ UNCHANGED <<budget, xvars, qvars, avars, pvars, log, pubs, sigs, wret, cmd, ecmd, addr, running,
                   mCmdReady, mProcessedSerial, mInExec, serial, child, qlist,
                   apc, nAppended>>

\* cCECRemote::TextViewOn(addr): the text-view-on request is sent to addr.
TextViewOn(a) == {"Transmit"}

\* case CEC_TEXTVIEWON
Action_TextViewOn ==
    /\ wpc = "action"
    /\ cmd.mCmd = "CEC_TEXTVIEWON"
    /\ IF mCECAdapter # "nullptr"
       THEN \E bus \in Buses :
              LET r == getLogical(cmd.mDevice, bus) IN
              /\ addr' = r.addr
              /\ cmd' = [cmd EXCEPT !.mDevice = r.dev]
              /\ calls' = calls \cup r.queries \cup
                          (IF r.addr # CECDEVICE_UNKNOWN THEN TextViewOn(r.addr) ELSE {})
       ELSE UNCHANGED <<addr, cmd, calls>>
    /\ EndSwitch
    /\ UNCHANGED <<budget, xvars, qvars, avars, pvars, log, pubs, sigs, wret, ecmd, running,
                   mCmdReady, mProcessedSerial, mInExec, serial, child, qlist,
                   apc, nAppended>>

\* cCECRemote::ActionKeyPress(cmd): the key is forwarded to the device as a
\* press and a release.
ActionKeyPress == {"SendKeypress", "SendKeyRelease"}

\* case CEC_VDRKEYPRESS
Action_VdrKeyPress ==
    /\ wpc = "action"
    /\ cmd.mCmd = "CEC_VDRKEYPRESS"
    /\ calls' = IF mCECAdapter # "nullptr" THEN calls \cup ActionKeyPress ELSE calls
    /\ EndSwitch
    /\ UNCHANGED <<budget, xvars, qvars, avars, pvars, log, pubs, sigs, wret, cmd, ecmd, addr, running,
                   mCmdReady, mProcessedSerial, mInExec, serial, child, qlist,
                   apc, nAppended>>

RECURSIVE Resubmit(_, _, _)
\* The commands of list as the synchronous path submits them one after the
\* other: each with the next serial after s, numbered from n + 1 in append
\* order.
Resubmit(list, s, n) ==
    IF list = << >> THEN << >>
    ELSE << [Head(list) EXCEPT !.mSerial = getSerial(s, SerialWrap), !.id = n + 1] >>
         \o Resubmit(Tail(list), getSerial(s, SerialWrap), n + 1)

\* cCECRemote::ExecToggle(dev, poweron, poweroff): resolve the device, query
\* its power status and replay one of the two lists: poweroff when the device
\* is on, poweron when it is in standby; nothing for an unresolved device.
ExecToggle(dev, poweron, poweroff, bus, status) ==
    LET r == getLogical(dev, bus) IN
    IF r.addr = CECDEVICE_UNKNOWN
    THEN [addr |-> r.addr, submit |-> << >>, queries |-> r.queries]
    ELSE [addr |-> r.addr,
          submit |-> IF status = "on" THEN poweroff ELSE poweron,
          queries |-> r.queries \cup {"GetDevicePowerStatus"}]

\* A case CEC_EXECTOGGLE that passes the two lists in the wrong order.
Action_ExecToggle_Swapped ==
    /\ wpc = "action"
    /\ cmd.mCmd = "CEC_EXECTOGGLE"
    /\ IF mCECAdapter # "nullptr"
       THEN \E bus \in Buses :
              LET r == ExecToggle(cmd.mDevice, OnPowerOff, OnPowerOn, bus, power) IN
              /\ addr' = r.addr
              /\ calls' = calls \cup r.queries
              /\ mWorkerQueue' = mWorkerQueue \o Resubmit(r.submit, serial, nAppended)
              /\ mWorkerQueueWait' = (mWorkerQueueWait \/ r.submit # << >>)
              /\ serial' = IF r.submit = << >> THEN serial
                            ELSE Resubmit(r.submit, serial, nAppended)[Len(r.submit)].mSerial
              /\ nAppended' = nAppended + Len(r.submit)
       ELSE UNCHANGED <<addr, calls, mWorkerQueue, mWorkerQueueWait, serial, nAppended>>
    /\ EndSwitch
    /\ UNCHANGED <<budget, xvars, mExecQueue, mExecQueueWait, avars, pvars, log, pubs,
                   sigs, wret, cmd, ecmd, running, mCmdReady, mProcessedSerial, mInExec,
                   child, qlist, apc>>

\* case CEC_EXECTOGGLE: ExecToggle(cmd.mDevice, cmd.mPoweron, cmd.mPoweroff);
Action_ExecToggle ==
    /\ wpc = "action"
    /\ cmd.mCmd = "CEC_EXECTOGGLE"
    /\ IF mCECAdapter # "nullptr"
       THEN \E bus \in Buses :
              LET r == ExecToggle(cmd.mDevice, OnPowerOn, OnPowerOff, bus, power) IN
              /\ addr' = r.addr
              /\ calls' = calls \cup r.queries
              /\ mWorkerQueue' = mWorkerQueue \o Resubmit(r.submit, serial, nAppended)
              /\ mWorkerQueueWait' = (mWorkerQueueWait \/ r.submit # << >>)
              /\ serial' = IF r.submit = << >> THEN serial
                            ELSE Resubmit(r.submit, serial, nAppended)[Len(r.submit)].mSerial
              /\ nAppended' = nAppended + Len(r.submit)
       ELSE UNCHANGED <<addr, calls, mWorkerQueue, mWorkerQueueWait, serial, nAppended>>
    /\ EndSwitch
    /\ UNCHANGED <<budget, xvars, mExecQueue, mExecQueueWait, avars, pvars, log, pubs,
                   sigs, wret, cmd, ecmd, running, mCmdReady, mProcessedSerial, mInExec,
                   child, qlist, apc>>

\* case CEC_EXECSHELL: Exec(cmd)
Action_ExecShell ==
    /\ wpc = "action"
    /\ cmd.mCmd = "CEC_EXECSHELL"
    /\ wpc' = "fork"
    /\ UNCHANGED <<budget, xvars, qvars, avars, pvars, hvars, wret, cmd, ecmd, addr, running,
                   mCmdReady, mProcessedSerial, mInExec, serial, child, calls, qlist,
                   apc, nAppended>>

\* A case CEC_EXIT that disconnects without cancelling the thread.
Action_Exit_NoCancel ==
    /\ wpc = "action"
    /\ cmd.mCmd = "CEC_EXIT"
    /\ running' = running
    /\ Disconnect
    /\ EndSwitch
    /\ UNCHANGED <<budget, xvars, qvars, pvars, log, pubs, sigs, wret, cmd, ecmd, addr,
                   mCmdReady, mProcessedSerial, mInExec, serial, child, qlist,
                   apc, nAppended>>

\* case CEC_EXIT: Cancel(-1); Disconnect();
Action_Exit ==
    /\ wpc = "action"
    /\ cmd.mCmd = "CEC_EXIT"
    /\ running' = FALSE
    /\ Disconnect
    /\ EndSwitch
    /\ UNCHANGED <<budget, xvars, qvars, pvars, log, pubs, sigs, wret, cmd, ecmd, addr,
                   mCmdReady, mProcessedSerial, mInExec, serial, child, qlist,
                   apc, nAppended>>

\* case CEC_RECONNECT: Disconnect(); sleep(1); Connect();
Action_Reconnect ==
    /\ wpc = "action"
    /\ cmd.mCmd = "CEC_RECONNECT"
    /\ Disconnect
    /\ wpc' = "connect"
    /\ wret' = "action"
    /\ UNCHANGED <<budget, xvars, qvars, pvars, hvars, cmd, ecmd, addr, running,
                   mCmdReady, mProcessedSerial, mInExec, serial, child, qlist,
                   apc, nAppended>>

\* case CEC_CONNECT: Connect();
Action_Connect ==
    /\ wpc = "action"
    /\ cmd.mCmd = "CEC_CONNECT"
    /\ wpc' = "connect"
    /\ wret' = "action"
    /\ UNCHANGED <<budget, xvars, qvars, avars, pvars, hvars, cmd, ecmd, addr, running,
                   mCmdReady, mProcessedSerial, mInExec, serial, child, calls, qlist,
                   apc, nAppended>>

\* case CEC_DISCONNECT: Disconnect();
Action_Disconnect ==
    /\ wpc = "action"
    /\ cmd.mCmd = "CEC_DISCONNECT"
    /\ Disconnect
    /\ EndSwitch
    /\ UNCHANGED <<budget, xvars, qvars, pvars, log, pubs, sigs, wret, cmd, ecmd, addr, running,
                   mCmdReady, mProcessedSerial, mInExec, serial, child, qlist,
                   apc, nAppended>>

\* if (cmd.mSerial != -1) { mProcessedSerial = cmd.mSerial; ...
Action_Store ==
    /\ wpc = "store"
    /\ IF cmd.mSerial # NO_SERIAL
       THEN /\ mProcessedSerial' = cmd.mSerial
            /\ pubs' = pubs \cup {cmd.id}
            /\ wpc' = "signal"
            /\ UNCHANGED <<addr, calls>>
       ELSE /\ wpc' = LoopHead
            /\ LoopLocals
            /\ UNCHANGED <<mProcessedSerial, pubs>>
    /\ UNCHANGED <<budget, xvars, qvars, avars, pvars, log, done, sigs, wret, cmd, ecmd, running,
                   mCmdReady, mInExec, serial, child, qlist, apc, nAppended>>

\* ... mCmdReady.Signal(); }
Action_Signal ==
    /\ wpc = "signal"
    /\ mCmdReady' = TRUE
    /\ sigs' = sigs \cup {cmd.id}
    /\ wpc' = LoopHead
    /\ LoopLocals
    /\ UNCHANGED <<budget, xvars, qvars, avars, pvars, log, done, pubs, wret, cmd, ecmd, running,
                   mProcessedSerial, mInExec, serial, child, qlist, apc, nAppended>>

(***************************************************************************)
(* cCECRemote::Exec and WaitExec: the nested loop on mExecQueue.           *)
(***************************************************************************)
\* An Exec that sets mInExec before the fork and returns on its failure.
Exec_Fork_InExecFirst ==
    /\ wpc = "fork"
    /\ mInExec' = TRUE
    /\ \E ok \in BOOLEAN :
         IF ok
         THEN /\ child' = "alive"
              /\ wpc' = "setInExec"
              /\ UNCHANGED done
         ELSE /\ EndSwitch
              /\ UNCHANGED child
    /\ UNCHANGED <<budget, xvars, qvars, avars, pvars, log, pubs, sigs, wret, cmd, ecmd, addr, running,
                   mCmdReady, mProcessedSerial, serial, calls, qlist, apc,
                   nAppended>>

\* pid_t pid = fork(); if (pid < 0) return;
Exec_Fork ==
    /\ wpc = "fork"
    /\ \E ok \in BOOLEAN :
         IF ok
         THEN /\ child' = "alive"
              /\ wpc' = "setInExec"
              /\ UNCHANGED done
         ELSE /\ EndSwitch
              /\ UNCHANGED child
    /\ UNCHANGED <<budget, xvars, qvars, avars, pvars, log, pubs, sigs, wret, cmd, ecmd, addr, running,
                   mCmdReady, mProcessedSerial, mInExec, serial, calls, qlist, apc,
                   nAppended>>

\* mInExec = true;
Exec_SetInExec ==
    /\ wpc = "setInExec"
    /\ mInExec' = TRUE
    /\ wpc' = "waitExec"
    /\ UNCHANGED <<budget, xvars, qvars, avars, pvars, hvars, wret, cmd, ecmd, addr, running,
                   mCmdReady, mProcessedSerial, serial, child, calls, qlist, apc,
                   nAppended>>

\* A WaitExec that returns the exit command after a timeout without asking
\* waitpid whether the child has exited.
WaitExec_ExitOnTimeout ==
    /\ wpc = "waitExec"
    /\ IF mExecQueue # << >>
       THEN /\ ecmd' = Head(mExecQueue)
            /\ mExecQueue' = Tail(mExecQueue)
            /\ log' = Append(log, [cmd |-> Head(mExecQueue), from |-> "exec"])
            /\ wpc' = "eaction"
            /\ UNCHANGED <<mExecQueueWait, child>>
       ELSE IF mExecQueueWait
       THEN /\ mExecQueueWait' = FALSE
            /\ UNCHANGED <<mExecQueue, ecmd, log, wpc, child>>
       ELSE /\ ecmd' = cCmd("CEC_EXIT", cCECDevice)
            /\ wpc' = "eaction"
            /\ UNCHANGED <<mExecQueue, mExecQueueWait, log, child>>
    /\ UNCHANGED <<budget, xvars, mWorkerQueue, mWorkerQueueWait, avars, pvars, done, pubs, sigs, wret,
                   cmd, addr, running, mCmdReady, mProcessedSerial, mInExec, serial,
                   calls, qlist, apc, nAppended>>

\* A WaitExec that serves the normal queue when the exec queue is empty.
WaitExec_ServesWorkerQueue ==
    /\ wpc = "waitExec"
    /\ IF mExecQueue # << >>
       THEN /\ ecmd' = Head(mExecQueue)
            /\ mExecQueue' = Tail(mExecQueue)
            /\ log' = Append(log, [cmd |-> Head(mExecQueue), from |-> "exec"])
            /\ wpc' = "eaction"
            /\ UNCHANGED <<mWorkerQueue, mExecQueueWait, child>>
       ELSE IF mWorkerQueue # << >>
       THEN /\ ecmd' = Head(mWorkerQueue)
            /\ mWorkerQueue' = Tail(mWorkerQueue)
            /\ log' = Append(log, [cmd |-> Head(mWorkerQueue), from |-> "exec"])
            /\ wpc' = "eaction"
            /\ UNCHANGED <<mExecQueue, mExecQueueWait, child>>
       ELSE IF mExecQueueWait
       THEN /\ mExecQueueWait' = FALSE
            /\ UNCHANGED <<mWorkerQueue, mExecQueue, ecmd, log, wpc, child>>
       ELSE /\ child = "exited"
            /\ child' = "none"
            /\ ecmd' = cCmd("CEC_EXIT", cCECDevice)
            /\ wpc' = "eaction"
            /\ UNCHANGED <<mWorkerQueue, mExecQueue, mExecQueueWait, log>>
    /\ UNCHANGED <<budget, xvars, mWorkerQueueWait, avars, pvars, done, pubs, sigs, wret,
                   cmd, addr, running, mCmdReady, mProcessedSerial, mInExec, serial,
                   calls, qlist, apc, nAppended>>

\* WaitExec(pid): pop the front of mExecQueue when there is one; else
\* Wait(250) on mExecQueueWait, and after a timeout waitpid(WNOHANG): a child
\* that has exited yields the synthesized cCmd(CEC_EXIT).
WaitExec ==
    /\ wpc = "waitExec"
    /\ IF mExecQueue # << >>
       THEN /\ ecmd' = Head(mExecQueue)
            /\ mExecQueue' = Tail(mExecQueue)
            /\ log' = Append(log, [cmd |-> Head(mExecQueue), from |-> "exec"])
            /\ wpc' = "eaction"
            /\ UNCHANGED <<mExecQueueWait, child>>
       ELSE IF mExecQueueWait
       THEN /\ mExecQueueWait' = FALSE
            /\ UNCHANGED <<mExecQueue, ecmd, log, wpc, child>>
       ELSE /\ child = "exited"
            /\ child' = "none"
            /\ ecmd' = cCmd("CEC_EXIT", cCECDevice)
            /\ wpc' = "eaction"
            /\ UNCHANGED <<mExecQueue, mExecQueueWait, log>>
    /\ UNCHANGED <<budget, xvars, mWorkerQueue, mWorkerQueueWait, avars, pvars, done, pubs, sigs, wret,
                   cmd, addr, running, mCmdReady, mProcessedSerial, mInExec, serial,
                   calls, qlist, apc, nAppended>>

\* Exec's switch: case CEC_EXIT and default only log.
Exec_Other ==
    /\ wpc = "eaction"
    /\ ecmd.mCmd \notin {"CEC_RECONNECT", "CEC_CONNECT", "CEC_DISCONNECT"}
    /\ EndExecSwitch
    /\ UNCHANGED <<budget, xvars, qvars, avars, pvars, log, pubs, sigs, wret, cmd, ecmd, addr, running,
                   mCmdReady, mProcessedSerial, mInExec, serial, child, calls, qlist,
                   apc, nAppended>>

\* Exec's switch: case CEC_RECONNECT: Disconnect(); sleep(1); Connect();
Exec_Reconnect ==
    /\ wpc = "eaction"
    /\ ecmd.mCmd = "CEC_RECONNECT"
    /\ Disconnect
    /\ wpc' = "connect"
    /\ wret' = "exec"
    /\ UNCHANGED <<budget, xvars, qvars, pvars, hvars, cmd, ecmd, addr, running,
                   mCmdReady, mProcessedSerial, mInExec, serial, child, qlist,
                   apc, nAppended>>

\* Exec's switch: case CEC_CONNECT: Connect();
Exec_Connect ==
    /\ wpc = "eaction"
    /\ ecmd.mCmd = "CEC_CONNECT"
    /\ wpc' = "connect"
    /\ wret' = "exec"
    /\ UNCHANGED <<budget, xvars, qvars, avars, pvars, hvars, cmd, ecmd, addr, running,
                   mCmdReady, mProcessedSerial, mInExec, serial, child, calls, qlist,
                   apc, nAppended>>

\* Exec's switch: case CEC_DISCONNECT: Disconnect();
Exec_Disconnect ==
    /\ wpc = "eaction"
    /\ ecmd.mCmd = "CEC_DISCONNECT"
    /\ Disconnect
    /\ EndExecSwitch
    /\ UNCHANGED <<budget, xvars, qvars, pvars, log, pubs, sigs, wret, cmd, ecmd, addr, running,
                   mCmdReady, mProcessedSerial, mInExec, serial, child, qlist,
                   apc, nAppended>>

\* } while (cmd.mCmd != CEC_EXIT); mInExec = false; and Exec returns into
\* Action's switch.
ExecLoopEnd ==
    IF ecmd.mCmd # "CEC_EXIT"
    THEN /\ wpc' = "waitExec"
         /\ UNCHANGED <<mInExec, done>>
    ELSE /\ mInExec' = FALSE
         /\ EndSwitch

\* An Exec whose loop does not publish the serial of the command it served.
Exec_Store_Silent ==
    /\ wpc = "estore"
    /\ ExecLoopEnd
    /\ UNCHANGED <<budget, xvars, qvars, avars, pvars, log, pubs, sigs, wret, cmd, ecmd, addr, running,
                   mCmdReady, mProcessedSerial, serial, child, calls, qlist, apc, nAppended>>

\* Exec: if (cmd.mSerial != -1) { mProcessedSerial = cmd.mSerial; ...
Exec_Store ==
    /\ wpc = "estore"
    /\ IF ecmd.mSerial # NO_SERIAL
       THEN /\ mProcessedSerial' = ecmd.mSerial
            /\ pubs' = pubs \cup {ecmd.id}
            /\ wpc' = "esignal"
            /\ UNCHANGED <<mInExec, done>>
       ELSE /\ ExecLoopEnd
            /\ UNCHANGED <<mProcessedSerial, pubs>>
    /\ UNCHANGED <<budget, xvars, qvars, avars, pvars, log, sigs, wret, cmd, ecmd, addr, running,
                   mCmdReady, serial, child, calls, qlist, apc, nAppended>>

\* Exec: ... mCmdReady.Signal(); }
Exec_Signal ==
    /\ wpc = "esignal"
    /\ mCmdReady' = TRUE
    /\ sigs' = sigs \cup {ecmd.id}
    /\ ExecLoopEnd
    /\ UNCHANGED <<budget, xvars, qvars, avars, pvars, log, pubs, wret, cmd, ecmd, addr, running,
                   mProcessedSerial, serial, child, calls, qlist, apc, nAppended>>

\* The forked shell terminates.
ChildExit ==
    /\ child = "alive"
    /\ child' = "exited"
    /\ UNCHANGED <<budget, xvars, qvars, avars, wvars, pvars, hvars, mCmdReady, mProcessedSerial,
                   mInExec, serial, calls, qlist, apc, nAppended>>

(***************************************************************************)
(* The producers.                                                          *)
(***************************************************************************)
\* Commands the calls in progress will still append.
Reserved ==
    Cardinality({t \in Waiters : ppc[t] = "push"})
    + Len(qlist)
    + (IF apc # "idle" THEN 1 ELSE 0)

\* A PushCmd that uses push_front as Reconnect does.
PushCmd_Front(kind) ==
    /\ nAppended + Reserved < budget
    /\ mWorkerQueue' = Numbered(<<cCmd(kind, cCECDevice)>>, nAppended) \o mWorkerQueue
    /\ mWorkerQueueWait' = TRUE
    /\ nAppended' = nAppended + 1
    /\ UNCHANGED <<budget, xvars, mExecQueue, mExecQueueWait, avars, wvars, pvars, hvars, mCmdReady,
                   mProcessedSerial, mInExec, serial, child, calls, qlist, apc>>

\* PushCmd(cmd): push_back on mWorkerQueue under the mutex, then Signal.
PushCmd(kind) ==
    /\ nAppended + Reserved < budget
    /\ mWorkerQueue' = mWorkerQueue \o Numbered(<<cCmd(kind, cCECDevice)>>, nAppended)
    /\ mWorkerQueueWait' = TRUE
    /\ nAppended' = nAppended + 1
    /\ UNCHANGED <<budget, xvars, mExecQueue, mExecQueueWait, avars, wvars, pvars, hvars, mCmdReady,
                   mProcessedSerial, mInExec, serial, child, calls, qlist, apc>>

\* PushCmdQueue(cmdList): if (mCECAdapter == nullptr) return;
PushCmdQueue_Check(list) ==
    /\ qlist = << >>
    /\ nAppended + Reserved + Len(list) <= budget
    /\ qlist' = IF mCECAdapter = "nullptr" THEN << >> ELSE list
    /\ UNCHANGED <<budget, xvars, qvars, avars, wvars, pvars, hvars, mCmdReady, mProcessedSerial,
                   mInExec, serial, child, calls, apc, nAppended>>

\* A PushCmdQueue that takes the mutex for each command of the list on its
\* own.
PushCmdQueue_Push_OneByOne ==
    /\ qlist # << >>
    /\ mWorkerQueue' = mWorkerQueue \o Numbered(<<Head(qlist)>>, nAppended)
    /\ mWorkerQueueWait' = TRUE
    /\ nAppended' = nAppended + 1
    /\ qlist' = Tail(qlist)
    /\ UNCHANGED <<budget, xvars, mExecQueue, mExecQueueWait, avars, wvars, pvars, hvars, mCmdReady,
                   mProcessedSerial, mInExec, serial, child, calls, apc>>

\* PushCmdQueue(cmdList): every command is pushed back under one lock of the
\* mutex, then Signal.
PushCmdQueue_Push ==
    /\ qlist # << >>
    /\ mWorkerQueue' = mWorkerQueue \o Numbered(qlist, nAppended)
    /\ mWorkerQueueWait' = TRUE
    /\ nAppended' = nAppended + Len(qlist)
    /\ qlist' = << >>
    /\ UNCHANGED <<budget, xvars, mExecQueue, mExecQueueWait, avars, wvars, pvars, hvars, mCmdReady,
                   mProcessedSerial, mInExec, serial, child, calls, apc>>

\* A PushWaitCmd that chooses the queue by mInExec alone, whatever the kind.
PushWaitCmd_Serial_AnyKind(t, kind) ==
    /\ ppc[t] = "idle"
    /\ nAppended + Reserved < budget
    /\ serial' = getSerial(serial, SerialWrap)
    /\ pcmd' = [pcmd EXCEPT ![t] = [cCmd(kind, DeviceOf(kind)) EXCEPT
                                        !.mSerial = serial',
                                        !.live = (child = "alive")]]
    /\ proute' = [proute EXCEPT ![t] = IF mInExec THEN "exec" ELSE "worker"]
    /\ psig' = [psig EXCEPT ![t] = FALSE]
    /\ ppc' = [ppc EXCEPT ![t] = "push"]
    /\ UNCHANGED <<budget, qvars, avars, wvars, hvars, mCmdReady, mProcessedSerial, mInExec,
                   child, calls, qlist, apc, nAppended>>

\* PushWaitCmd(cmd): serial = cmd.getSerial(); cmd.mSerial = serial; and the
\* test ((CEC_CONNECT or CEC_DISCONNECT) && mInExec) that chooses the queue.
PushWaitCmd_Serial(t, kind) ==
    /\ ppc[t] = "idle"
    /\ nAppended + Reserved < budget
    /\ serial' = getSerial(serial, SerialWrap)
    /\ pcmd' = [pcmd EXCEPT ![t] = [cCmd(kind, DeviceOf(kind)) EXCEPT
                                        !.mSerial = serial',
                                        !.live = (child = "alive")]]
    /\ proute' = [proute EXCEPT ![t] =
                     IF kind \in {"CEC_CONNECT", "CEC_DISCONNECT"} /\ mInExec
                     THEN "exec" ELSE "worker"]
    /\ psig' = [psig EXCEPT ![t] = FALSE]
    /\ ppc' = [ppc EXCEPT ![t] = "push"]
    /\ UNCHANGED <<budget, qvars, avars, wvars, hvars, mCmdReady, mProcessedSerial, mInExec,
                   child, calls, qlist, apc, nAppended>>

\* PushWaitCmd(cmd) called by a thread that is in no other call.
PushWaitCmd_Begin(t, kind) ==
    /\ PushWaitCmd_Serial(t, kind)
    /\ UNCHANGED xvars

\* A PushWaitCmd that puts its command at the front of the normal queue.
PushWaitCmd_Push_Front(t) ==
    /\ ppc[t] = "push"
    /\ LET c == [pcmd[t] EXCEPT !.id = nAppended + 1,
                                !.live = pcmd[t].live /\ child = "alive"] IN
       /\ pcmd' = [pcmd EXCEPT ![t] = c]
       /\ IF proute[t] = "exec"
          THEN /\ mExecQueue' = Append(mExecQueue, c)
               /\ mExecQueueWait' = TRUE
               /\ UNCHANGED <<mWorkerQueue, mWorkerQueueWait>>
          ELSE /\ mWorkerQueue' = << c >> \o mWorkerQueue
               /\ mWorkerQueueWait' = TRUE
               /\ UNCHANGED <<mExecQueue, mExecQueueWait>>
    /\ nAppended' = nAppended + 1
    /\ ppc' = [ppc EXCEPT ![t] = "wait"]
    /\ UNCHANGED <<budget, xvars, avars, wvars, hvars, proute, psig, mCmdReady,
                   mProcessedSerial, mInExec, serial, child, calls, qlist, apc>>

\* PushWaitCmd: push_back on the chosen queue under its mutex, then Signal.
PushWaitCmd_Push(t) ==
    /\ ppc[t] = "push"
    /\ LET c == [pcmd[t] EXCEPT !.id = nAppended + 1,
                                !.live = pcmd[t].live /\ child = "alive"] IN
       /\ pcmd' = [pcmd EXCEPT ![t] = c]
       /\ IF proute[t] = "exec"
          THEN /\ mExecQueue' = Append(mExecQueue, c)
               /\ mExecQueueWait' = TRUE
               /\ UNCHANGED <<mWorkerQueue, mWorkerQueueWait>>
          ELSE /\ mWorkerQueue' = Append(mWorkerQueue, c)
               /\ mWorkerQueueWait' = TRUE
               /\ UNCHANGED <<mExecQueue, mExecQueueWait>>
    /\ nAppended' = nAppended + 1
    /\ ppc' = [ppc EXCEPT ![t] = "wait"]
    /\ UNCHANGED <<budget, xvars, avars, wvars, hvars, proute, psig, mCmdReady,
                   mProcessedSerial, mInExec, serial, child, calls, qlist, apc>>

\* PushWaitCmd: signaled = mCmdReady.Wait(timeout): the flag is returned and
\* cleared; false is the timeout.
PushWaitCmd_Wait(t) ==
    /\ ppc[t] = "wait"
    /\ psig' = [psig EXCEPT ![t] = mCmdReady]
    /\ mCmdReady' = FALSE
    /\ ppc' = [ppc EXCEPT ![t] = "check"]
    /\ UNCHANGED <<budget, xvars, qvars, avars, wvars, hvars, pcmd, proute, mProcessedSerial,
                   mInExec, serial, child, calls, qlist, apc, nAppended>>

\* PushWaitCmd: while ((mProcessedSerial.load() != serial) && (signaled));
\* then the timeout or the success branch.
PushWaitCmd_Check(t) ==
    /\ ppc[t] = "check"
    /\ IF mProcessedSerial # pcmd[t].mSerial /\ psig[t]
       THEN /\ ppc' = [ppc EXCEPT ![t] = "wait"]
            /\ UNCHANGED <<pcmd, proute, psig>>
       ELSE /\ ppc' = [ppc EXCEPT ![t] = "idle"]
            /\ pcmd' = [pcmd EXCEPT ![t] = InvalidCmd]
            /\ proute' = [proute EXCEPT ![t] = "worker"]
            /\ psig' = [psig EXCEPT ![t] = FALSE]
    /\ UNCHANGED <<budget, xvars, qvars, avars, wvars, hvars, mCmdReady,
                   mProcessedSerial, mInExec, serial, child, calls, qlist, apc, nAppended>>

\* A Reconnect() that uses push_back as PushCmd does.
Reconnect_Push_Back ==
    /\ apc # "idle"
    /\ LET c == [cCmd("CEC_RECONNECT", cCECDevice) EXCEPT !.id = nAppended + 1] IN
       IF apc = "exec"
       THEN /\ mExecQueue' = Append(mExecQueue, c)
            /\ mExecQueueWait' = TRUE
            /\ UNCHANGED <<mWorkerQueue, mWorkerQueueWait>>
       ELSE /\ mWorkerQueue' = Append(mWorkerQueue, c)
            /\ mWorkerQueueWait' = TRUE
            /\ UNCHANGED <<mExecQueue, mExecQueueWait>>
    /\ nAppended' = nAppended + 1
    /\ apc' = "idle"
    /\ UNCHANGED <<budget, xvars, avars, wvars, pvars, hvars, mCmdReady, mProcessedSerial, mInExec,
                   serial, child, calls, qlist>>

\* CecAlertCallback(CEC_ALERT_CONNECTION_LOST) -> Reconnect(): if (mInExec)
Reconnect_Begin ==
    /\ apc = "idle"
    /\ mCECAdapter # "nullptr"
    /\ nAppended + Reserved < budget
    /\ apc' = IF mInExec THEN "exec" ELSE "worker"
    /\ UNCHANGED <<budget, xvars, qvars, avars, wvars, pvars, hvars, mCmdReady, mProcessedSerial,
                   mInExec, serial, child, calls, qlist, nAppended>>

\* Reconnect(): push_front of cCmd(CEC_RECONNECT) on the chosen queue, Signal.
Reconnect_Push ==
    /\ apc # "idle"
    /\ LET c == [cCmd("CEC_RECONNECT", cCECDevice) EXCEPT !.id = nAppended + 1] IN
       IF apc = "exec"
       THEN /\ mExecQueue' = <<c>> \o mExecQueue
            /\ mExecQueueWait' = TRUE
            /\ UNCHANGED <<mWorkerQueue, mWorkerQueueWait>>
       ELSE /\ mWorkerQueue' = <<c>> \o mWorkerQueue
            /\ mWorkerQueueWait' = TRUE
            /\ UNCHANGED <<mExecQueue, mExecQueueWait>>
    /\ nAppended' = nAppended + 1
    /\ apc' = "idle"
    /\ UNCHANGED <<budget, xvars, avars, wvars, pvars, hvars, mCmdReady, mProcessedSerial, mInExec,
                   serial, child, calls, qlist>>

(***************************************************************************)
(* The specifications.                                                     *)
(***************************************************************************)
Worker ==
    \/ Action_Start \/ Connect_Init \/ Connect_Open \/ WaitCmd
    \/ Action_KeyPress \/ Action_Power \/ Action_MakeActive \/ Action_ExecShell
    \/ Action_Exit \/ Action_Reconnect \/ Action_Connect \/ Action_Disconnect
    \/ Action_Store \/ Action_Signal
    \/ Exec_Fork \/ Exec_SetInExec \/ WaitExec \/ Exec_Other \/ Exec_Reconnect
    \/ Exec_Connect \/ Exec_Disconnect \/ Exec_Store \/ Exec_Signal

\* A producer thread that is inside a call goes on: the append of a call
\* that has chosen its queue.
Appends ==
    \/ PushCmdQueue_Push
    \/ \E t \in Waiters : PushWaitCmd_Push(t)
    \/ Reconnect_Push

Producers ==
    \/ \E kind \in PushCmdKinds : PushCmd(kind)
    \/ \E list \in CmdLists : PushCmdQueue_Check(list)
    \/ \E t \in Waiters :
         \/ \E kind \in PushWaitKinds(t) : PushWaitCmd_Begin(t, kind)
         \/ PushWaitCmd_Wait(t)
         \/ PushWaitCmd_Check(t)
    \/ Reconnect_Begin

Next == Worker \/ ChildExit \/ Appends \/ Producers

Spec == Init /\ [][Next]_vars

SpecWrap == InitWrap /\ [][Next]_vars

\* The worker thread and the producer threads are scheduled, and the shell
\* script ends; nothing obliges a producer to start a new call.
FairSpec == Spec /\ WF_vars(Worker) /\ WF_vars(ChildExit) /\ WF_vars(Appends)

(***************************************************************************)
(* Properties of the command engine.                                       *)
(***************************************************************************)
\* A command appended by PushCmd or PushCmdQueue: no serial, not the
\* reconnect of Reconnect().
Async(c) == c.mSerial = NO_SERIAL /\ c.mCmd # "CEC_RECONNECT"

LogIds == {log[i].cmd.id : i \in 1 .. Len(log)}

Queued == mWorkerQueue \o mExecQueue

\* C1: commands submitted by PushCmd and PushCmdQueue are dispatched in the
\* order in which they were appended: among the commands popped so far the
\* pop order is the append order, no command still queued was appended
\* before one that has been popped, and the queue holds them in append order.
C1_AsyncFifo ==
    /\ \A i, j \in 1 .. Len(log) :
          (i < j /\ Async(log[i].cmd) /\ Async(log[j].cmd))
              => log[i].cmd.id < log[j].cmd.id
    /\ \A i \in 1 .. Len(log), k \in 1 .. Len(mWorkerQueue) :
          (Async(log[i].cmd) /\ Async(mWorkerQueue[k]))
              => log[i].cmd.id < mWorkerQueue[k].id
    /\ \A k, l \in 1 .. Len(mWorkerQueue) :
          (k < l /\ Async(mWorkerQueue[k]) /\ Async(mWorkerQueue[l]))
              => mWorkerQueue[k].id < mWorkerQueue[l].id

\* Two commands of PushCmd / PushCmdQueue have been popped and dispatched.
C1_Witness ==
    \E i, j \in 1 .. Len(log) :
        /\ i < j
        /\ Async(log[i].cmd) /\ Async(log[j].cmd)
        /\ {log[i].cmd.id, log[j].cmd.id} \subseteq done

\* C2: a PushWaitCmd caller that is about to leave its wait loop on the
\* success path (Wait returned true and mProcessedSerial equals its serial)
\* has had its own command dispatched, also after getSerial has wrapped.
C2_SuccessMeansDispatched ==
    \A t \in Waiters :
        (ppc[t] = "check" /\ psig[t] /\ mProcessedSerial = pcmd[t].mSerial)
            => pcmd[t].id \in done

\* Both callers are inside PushWaitCmd with different serials, the worker has
\* published and signalled both commands, and the caller other than t has not
\* had a Wait time out.
BothDispatched(t) ==
    /\ pcmd["svdrp"].mSerial # pcmd["main"].mSerial
    /\ \A u \in Waiters :
          /\ ppc[u] \in {"wait", "check"}
          /\ pcmd[u].id \in sigs
          /\ (u # t /\ ppc[u] = "check") => psig[u]

\* C3: when two threads wait in PushWaitCmd with different serials and the
\* worker has dispatched and notified both, no Wait of either caller times
\* out (each returns on the success path).
C3_NoTimeoutOnceBothDispatched ==
    [][\A t \in Waiters :
          (ppc[t] = "wait" /\ ppc'[t] = "check" /\ BothDispatched(t)) => psig'[t]]_vars

\* C4: a connect or disconnect submitted through PushWaitCmd while the
\* forked child was alive, the window between fork and mInExec = true
\* included, is served by the nested loop of Exec: none waits in the normal
\* queue while the worker sits in WaitExec and the child is still running.
C4_LiveConnectServedByExec ==
    ~ /\ wpc = "waitExec"
      /\ child = "alive"
      /\ \E k \in 1 .. Len(mWorkerQueue) :
            /\ mWorkerQueue[k].mCmd \in {"CEC_CONNECT", "CEC_DISCONNECT"}
            /\ mWorkerQueue[k].live

\* The ids of the commands in a queue.
QueueIds(q) == {q[k].id : k \in 1 .. Len(q)}

\* C5: while mInExec is set no command leaves the normal queue, none of its
\* commands is dispatched and none of their serials is published.
C5_NormalQueueFrozenInExec ==
    [][mInExec =>
          /\ QueueIds(mWorkerQueue) \subseteq QueueIds(mWorkerQueue')
          /\ QueueIds(mWorkerQueue) \cap (done' \cup pubs' \cup sigs') = {}]_vars

\* The exit of Stop(), submitted through PushWaitCmd, sits in the normal
\* queue while the worker is in the nested loop, and its caller has seen a
\* timeout.
C5_Witness ==
    /\ mInExec
    /\ wpc = "waitExec"
    /\ \E k \in 1 .. Len(mWorkerQueue) :
          /\ mWorkerQueue[k].mCmd = "CEC_EXIT"
          /\ mWorkerQueue[k].mSerial # NO_SERIAL
          /\ pcmd["main"].id = mWorkerQueue[k].id
          /\ ppc["main"] = "check"
          /\ ~psig["main"]

\* The engine state Connect and Disconnect may touch or leave alone.
EngineState == <<avars, qvars, mInExec, mProcessedSerial, mCmdReady, running, child,
                 calls>>

\* The worker executes the first statement of Connect().
ConnectStep == wpc = "connect" /\ wpc' # wpc

\* The worker executes Disconnect() for a disconnect command of either loop.
DisconnectStep ==
    /\ wpc' # wpc
    /\ \/ wpc = "action" /\ cmd.mCmd = "CEC_DISCONNECT"
       \/ wpc = "eaction" /\ ecmd.mCmd = "CEC_DISCONNECT"

\* C6: Connect() with the adapter set changes no engine state, Disconnect()
\* with the adapter null leaves it null and releases nothing, and at most
\* one library handle is ever held, exactly when mCECAdapter is set.
C6_ConnectDisconnectIdempotent ==
    /\ [](/\ libHandles \in {0, 1}
          /\ (libHandles = 1) <=> (mCECAdapter # "nullptr")
          /\ adapterOpen => (mCECAdapter # "nullptr"))
    /\ [][(ConnectStep /\ mCECAdapter # "nullptr") => UNCHANGED EngineState]_vars
    /\ [][(DisconnectStep /\ mCECAdapter = "nullptr") => UNCHANGED EngineState]_vars

\* A second connect command has been dispatched after an earlier one, and the
\* adapter is open with a single handle.
C6_Witness ==
    /\ wpc = "store"
    /\ cmd.mCmd = "CEC_CONNECT"
    /\ adapterOpen
    /\ libHandles = 1
    /\ \E i \in 1 .. Len(log) :
          /\ log[i].cmd.mCmd = "CEC_CONNECT"
          /\ log[i].cmd.id # cmd.id
          /\ log[i].cmd.id \in done

\* The adapter methods that request or query power.
PowerMethods == {"PowerOnDevices", "StandbyDevices", "GetDevicePowerStatus"}

\* C7: a power-on or power-off whose device getLogical could not resolve is
\* skipped: its dispatch ends without a power request and without a power
\* status query.
C7_UnresolvedPowerSkipped ==
    (/\ wpc = "store"
     /\ cmd.mCmd \in {"CEC_POWERON", "CEC_POWEROFF"}
     /\ addr = CECDEVICE_UNKNOWN)
        => calls \cap PowerMethods = {}

\* The ids commands can have.
Ids == 1 .. (MaxCmds + 1)

\* The reconnect command with id i waits in a queue.
ReconnectPending(i) ==
    \E k \in 1 .. Len(Queued) : Queued[k].id = i /\ Queued[k].mCmd = "CEC_RECONNECT"

\* C8: the reconnect command of every connection-lost alert is eventually
\* dispatched, unless the worker has been told to exit.
C8_ReconnectEventuallyDispatched ==
    \A i \in Ids : (ReconnectPending(i) /\ running) ~> (i \in done \/ ~running)

\* The command with id i was submitted through PushWaitCmd, still waits in a
\* queue, and its caller has returned.
AbandonedPending(i) ==
    /\ \E k \in 1 .. Len(Queued) : Queued[k].id = i /\ Queued[k].mSerial # NO_SERIAL
    /\ \A t \in Waiters : pcmd[t].id # i

\* C9: a command whose PushWaitCmd timed out while it was still queued is
\* eventually dispatched, unless the worker has been told to exit.
C9_AbandonedEventuallyDispatched ==
    \A i \in Ids : (AbandonedPending(i) /\ running) ~> (i \in done \/ ~running)

\* The worker is in the nested loop's handling of ecmd.
NestedBusy ==
    \/ wpc \in {"eaction", "estore", "esignal"}
    \/ wpc \in {"connect", "open"} /\ wret = "exec"

\* The worker is between two commands of Action's loop.
WorkerIdle ==
    \/ wpc \in {"start", "wait", "stopped"}
    \/ wpc \in {"connect", "open"} /\ wret = "start"

\* The worker has popped c and not yet completed the step after its switch.
InHand(c) ==
    \/ ~WorkerIdle /\ cmd.id = c.id
    \/ NestedBusy /\ ecmd.id = c.id

\* C10: for every command popped from either queue and completed, the
\* worker has stored its serial in mProcessedSerial and signalled mCmdReady
\* if it carries a serial, and has done neither if its serial is -1; the
\* value stored is the command's serial.
C10_PublishedIffSerial ==
    /\ \A i \in 1 .. Len(log) :
          LET c == log[i].cmd IN
          ~InHand(c) =>
              /\ c.id \in done
              /\ (c.mSerial # NO_SERIAL) <=> (c.id \in pubs)
              /\ (c.mSerial # NO_SERIAL) <=> (c.id \in sigs)
    /\ wpc = "signal" => (cmd.mSerial # NO_SERIAL /\ mProcessedSerial = cmd.mSerial)
    /\ wpc = "esignal" => (ecmd.mSerial # NO_SERIAL /\ mProcessedSerial = ecmd.mSerial)
    /\ sigs \subseteq pubs
    /\ pubs \subseteq LogIds

\* The nested loop has completed a command that carries a serial, and the
\* normal loop has completed one without.
C10_Witness ==
    /\ \E i \in 1 .. Len(log) :
          /\ log[i].from = "exec"
          /\ log[i].cmd.mSerial # NO_SERIAL
          /\ ~InHand(log[i].cmd)
          /\ log[i].cmd.id \in sigs
    /\ \E i \in 1 .. Len(log) :
          /\ log[i].cmd.mSerial = NO_SERIAL
          /\ ~InHand(log[i].cmd)

\* The worker has left the loop of Action after the exit command it took
\* from the normal queue.
WorkerStopped == wpc = "stopped" /\ cmd.mCmd = "CEC_EXIT"

\* The commands the worker took from the normal queue before the exit
\* command that stopped it was appended.
PriorDispatched ==
    {k \in DOMAIN log : log[k].from = "worker" /\ log[k].cmd.id < cmd.id}

ExitsDispatched ==
    {k \in DOMAIN log : /\ log[k].from = "worker"
                        /\ log[k].cmd.mCmd = "CEC_EXIT"
                        /\ log[k].cmd.id \in done}

\* C14: once an exit command from the normal queue has been dispatched, it
\* is the last command taken from either queue, the adapter handle is null,
\* and when the worker has left its loop the serial of that command is the
\* published one and has been signalled.
C14_ExitIsLast ==
    \A k \in ExitsDispatched :
        /\ k = Len(log)
        /\ mCECAdapter = "nullptr"
        /\ (wpc = "stopped" /\ log[k].cmd.mSerial # NO_SERIAL)
              => /\ mProcessedSerial = log[k].cmd.mSerial
                 /\ log[k].cmd.id \in pubs
                 /\ log[k].cmd.id \in sigs

\* The worker has left its loop after an exit command while another command
\* waits in the normal queue.
C14_Witness ==
    /\ ExitsDispatched # {}
    /\ wpc = "stopped"
    /\ mWorkerQueue # << >>
    /\ cmd.id \in sigs

\* The kinds of the commands the adapter callbacks produce: the key press
\* callback and the connection-lost alert.
CallbackKinds == {"CEC_KEYRPRESS", "CEC_RECONNECT"}

\* The commands a step adds to either queue when it adds exactly one.
NewCmds ==
    {c \in {mWorkerQueue'[i] : i \in DOMAIN mWorkerQueue'}
            \cup {mExecQueue'[i] : i \in DOMAIN mExecQueue'} : c.id = nAppended'}

\* A step on which a callback adds its command to a queue.
CallbackStep ==
    /\ nAppended' = nAppended + 1
    /\ \E c \in NewCmds : c.mCmd \in CallbackKinds

\* The step puts exactly one command, the new one, behind those of the normal
\* queue and leaves the exec queue alone.
AtTailOfNormal ==
    /\ mExecQueue' = mExecQueue
    /\ Len(mWorkerQueue') = Len(mWorkerQueue) + 1
    /\ mWorkerQueue' = Append(mWorkerQueue, mWorkerQueue'[Len(mWorkerQueue')])
    /\ mWorkerQueue'[Len(mWorkerQueue')].id = nAppended'

DispatchedFrom(q, qn) ==
    IF Len(log') = Len(log) + 1 /\ Len(qn) < Len(q)
    THEN {log'[Len(log')].cmd} ELSE {}

\* Whenever x is dispatched from q, no reconnect request that was made while x
\* was pending is still waiting in q.
ReconnectNotOvertaken(q, qn) ==
    \A x \in DispatchedFrom(q, qn) :
        \A i \in DOMAIN q :
            (q[i].mCmd = "CEC_RECONNECT" /\ q[i].id # x.id) => q[i].id < x.id

C30_ExecLoopTerminates ==
    /\ (child = "exited") ~> (~mInExec /\ child = "none" /\ wpc = "wait")
    /\ [][(mInExec /\ ~mInExec') =>
            /\ ecmd.mCmd = "CEC_EXIT"
            /\ child # "alive" \/ ecmd.id # 0]_vars

\* The child has exited, the loop has ended on the synthesized exit and the
\* worker is back at WaitCmd with the shell command done.
C30_Witness ==
    /\ ~mInExec
    /\ child = "none"
    /\ wpc = "wait"
    /\ \E i \in DOMAIN log : log[i].cmd.mCmd = "CEC_EXECSHELL" /\ log[i].cmd.id \in done

\* C31: a command is taken from the exec queue only inside the nested loop
\* of Exec and only while the forked child is alive.
C31_ExecQueuePoppedWhileChildAlive ==
    [][Len(mExecQueue') < Len(mExecQueue) => (mInExec /\ child = "alive")]_vars

\* The fork of Exec fails: Exec returns to the end of Action's switch.
ForkFails == wpc = "fork" /\ wpc' = "store"

\* C32: when fork fails the worker does not enter the nested loop: mInExec
\* is and stays false, there is no child, the adapter handle and both queues
\* are unchanged and the command is done; the store that follows publishes
\* the serial of the command if it is set and the worker goes back to WaitCmd.
C32_ForkFailureAbandonsExec ==
    [][/\ ForkFails =>
            /\ ~mInExec /\ ~mInExec'
            /\ child' = child /\ child # "alive"
            /\ <<mCECAdapter, adapterOpen, mWorkerQueue, mExecQueue>>'
                 = <<mCECAdapter, adapterOpen, mWorkerQueue, mExecQueue>>
            /\ cmd' = cmd /\ cmd.id \in done'
       /\ (wpc = "store" /\ wpc' # "store" /\ cmd.mCmd = "CEC_EXECSHELL") =>
            /\ ~mInExec'
            /\ IF cmd.mSerial # NO_SERIAL
               THEN mProcessedSerial' = cmd.mSerial /\ wpc' = "signal"
               ELSE wpc' = "wait"]_vars

\* The fork of the first shell command has failed: no command has ever been
\* served by the nested loop, the command is done and the worker is back at
\* WaitCmd.
C32_Witness ==
    /\ wpc = "wait"
    /\ ecmd = InvalidCmd
    /\ ~mInExec
    /\ child = "none"
    /\ \E i \in DOMAIN log : log[i].cmd.mCmd = "CEC_EXECSHELL" /\ log[i].cmd.id \in done

\* The step on which a Connect() returns to its caller.
ConnectReturns == wpc \in {"connect", "open"} /\ wpc' \notin {"connect", "open"}

\* C33: when the Connect() that Action makes before its loop fails,
\* mCECAdapter is null on return and the worker goes on to its loop, still
\* running; from then on mCECAdapter is set exactly when the adapter is open,
\* and a later Connect() made for a connect command that returns with
\* mCECAdapter set has opened the adapter.
C33_FailedStartRecoversByConnect ==
    /\ [][(ConnectReturns /\ wret = "start" /\ ~adapterOpen') =>
             /\ mCECAdapter' = "nullptr"
             /\ wpc' = LoopHead
             /\ running' = running]_vars
    /\ [][(ConnectReturns /\ wret # "start" /\ startConn = "failed"
            /\ mCECAdapter' # "nullptr") => adapterOpen']_vars
    /\ []((startConn = "failed" /\ wpc \notin {"connect", "open"}) =>
             (adapterOpen <=> mCECAdapter # "nullptr"))

\* after a failed first Connect(), a dispatched connect command has opened the
\* adapter
C33_Witness ==
    /\ startConn = "failed"
    /\ adapterOpen /\ mCECAdapter # "nullptr"
    /\ running
    /\ cmd.mCmd = "CEC_CONNECT" /\ cmd.id \in done

\* C39: a producer that finds mCECAdapter set (PushCmdQueue taking up its
\* list) finds an adapter that has been opened.
C39_HandleSetMeansOpened ==
    [][(qlist = << >> /\ qlist' # << >>) => adapterOpen]_vars

\* the kinds the nested loop of Exec serves from mExecQueue
ExecKinds == {"CEC_CONNECT", "CEC_DISCONNECT", "CEC_RECONNECT"}

\* C40: mExecQueue holds only connect, disconnect and reconnect commands.
\* PushWaitCmd chooses mExecQueue only for a connect or disconnect and only
\* when it reads mInExec set, Reconnect chooses it only when it reads mInExec
\* set, and mExecQueue grows only by such a PushWaitCmd's command at the tail
\* or by Reconnect's reconnect at the head.
C40_ExecQueueKinds ==
    /\ [](\A i \in DOMAIN mExecQueue : mExecQueue[i].mCmd \in ExecKinds)
    /\ [][\A t \in Waiters :
            (ppc[t] = "idle" /\ ppc'[t] = "push" /\ proute'[t] = "exec") =>
               (mInExec /\ pcmd'[t].mCmd \in {"CEC_CONNECT", "CEC_DISCONNECT"})]_vars
    /\ [][(apc = "idle" /\ apc' = "exec") => mInExec]_vars
    /\ [][Len(mExecQueue') > Len(mExecQueue) =>
            \/ \E t \in Waiters :
                 /\ ppc[t] = "push" /\ proute[t] = "exec"
                 /\ pcmd[t].mCmd \in {"CEC_CONNECT", "CEC_DISCONNECT"}
                 /\ mExecQueue' = Append(mExecQueue, pcmd'[t])
            \/ /\ apc = "exec"
               /\ Tail(mExecQueue') = mExecQueue
               /\ Head(mExecQueue').mCmd = "CEC_RECONNECT"]_vars

\* while the script runs, the exec queue holds an SVDRP DISC that PushWaitCmd
\* routed there
C40_Witness ==
    /\ mInExec /\ child = "alive"
    /\ mExecQueue # << >>
    /\ mExecQueue[1].mCmd = "CEC_DISCONNECT"
    /\ mExecQueue[1].mSerial # NO_SERIAL

(***************************************************************************)
(* WaitForPowerStatus(addr, newstatus), called by the worker from           *)
(* case CEC_POWERON and case CEC_POWEROFF.                                  *)
(***************************************************************************)
\* cec_power_status, as GetDevicePowerStatus returns it
PowerStatuses == {"CEC_POWER_STATUS_ON", "CEC_POWER_STATUS_STANDBY",
                  "CEC_POWER_STATUS_IN_TRANSITION_STANDBY_TO_ON",
                  "CEC_POWER_STATUS_IN_TRANSITION_ON_TO_STANDBY",
                  "CEC_POWER_STATUS_UNKNOWN"}

\* WaitForPowerStatus(addr, CEC_POWER_STATUS_ON) after PowerOnDevices,
\* WaitForPowerStatus(addr, CEC_POWER_STATUS_STANDBY) after StandbyDevices:
\* int cnt = 0 and an uninitialised status.
WaitForPowerStatus_Call ==
    /\ wfpc = "idle"
    /\ \E n \in {"CEC_POWER_STATUS_ON", "CEC_POWER_STATUS_STANDBY"} : newstatus' = n
    /\ wfstatus' = "uninitialized"
    /\ cnt' = 0
    /\ wfpc' = "do"
    /\ UNCHANGED <<evars, xrest, kvars, svars>>

\* The body of the do loop: w.Wait(100), one GetDevicePowerStatus, cnt++.
WaitForPowerStatus_Query ==
    /\ wfpc = "do"
    /\ \E s \in PowerStatuses : wfstatus' = s
    /\ cnt' = cnt + 1
    /\ wfpc' = "while"
    /\ UNCHANGED <<newstatus, evars, xrest, kvars, svars>>

\* A loop condition without the test of CEC_POWER_STATUS_UNKNOWN.
WaitForPowerStatus_While_NoUnknown ==
    /\ wfpc = "while"
    /\ wfpc' = IF wfstatus # newstatus /\ cnt < PollLimit THEN "do" ELSE "idle"
    /\ UNCHANGED <<newstatus, wfstatus, cnt, evars, xrest, kvars, svars>>

\* while ((status != newstatus) && (cnt < 50) &&
\*        (status != CEC_POWER_STATUS_UNKNOWN)); then the function returns.
WaitForPowerStatus_While ==
    /\ wfpc = "while"
    /\ wfpc' = IF /\ wfstatus # newstatus
                  /\ cnt < PollLimit
                  /\ wfstatus # "CEC_POWER_STATUS_UNKNOWN"
               THEN "do" ELSE "idle"
    /\ UNCHANGED <<newstatus, wfstatus, cnt, evars, xrest, kvars, svars>>

WaitForPowerStatus_Loop == WaitForPowerStatus_Query \/ WaitForPowerStatus_While

NextPoll == WaitForPowerStatus_Call \/ WaitForPowerStatus_Loop

\* The worker thread runs; the 100 ms wait and the adapter's answer both
\* come back.
PollSpec == Init /\ [][NextPoll]_vars /\ WF_vars(WaitForPowerStatus_Loop)

\* a reading that ends the wait: the expected status or the unknown status
EndsWait(s) == s \in {newstatus, "CEC_POWER_STATUS_UNKNOWN"}

\* C34: WaitForPowerStatus returns, after at least one and at most 50
\* queries; it returns right after the first query that reads the expected
\* status or the unknown status, and makes no query after such a reading.
C34_PollBoundedAndStopsOnReading ==
    /\ [](cnt \in 0 .. PollLimit)
    /\ [][(wfpc = "while" /\ wfpc' = "idle") =>
             /\ cnt \in 1 .. PollLimit
             /\ EndsWait(wfstatus) \/ cnt = PollLimit]_vars
    /\ [][(wfpc = "while" /\ EndsWait(wfstatus)) => wfpc' = "idle"]_vars
    /\ [][cnt' = cnt + 1 => ~EndsWait(wfstatus)]_vars
    /\ (wfpc = "do" ~> wfpc = "idle")

\* the wait has given up after 50 queries, none of which read the expected
\* or the unknown status
C34_Witness ==
    /\ wfpc = "idle"
    /\ cnt = PollLimit
    /\ wfstatus \in PowerStatuses
    /\ ~EndsWait(wfstatus)

(***************************************************************************)
(* CecKeyPressCallback, called by the adapter's thread for each key event.  *)
(***************************************************************************)
\* The number of key events a behaviour delivers.
MaxKeys == 3

\* key->keycode: two ordinary keys, the largest code, the code behind it and
\* the unknown code
KeyCodes == {0, 1, CEC_USER_CONTROL_CODE_MAX, CEC_USER_CONTROL_CODE_MAX + 1,
             CEC_USER_CONTROL_CODE_UNKNOWN}

\* key->duration in ms: 0 for a press, the time the key was held for a release
Durations == {0, 500}

\* cCmd cmd(CEC_KEYRPRESS, (int)key->keycode)
KeyCmd(keycode) == [mCmd |-> "CEC_KEYRPRESS", mVal |-> keycode, mSerial |-> NO_SERIAL,
                    mDevice |-> cCECDevice, id |-> 0, live |-> FALSE]

\* A callback that remembers the key of every event, enqueued or not.
CecKeyPressCallback_RemembersAll ==
    /\ nEvents < MaxKeys
    /\ \E k \in KeyCodes, d \in Durations :
         /\ kev' = [keycode |-> k, duration |-> d]
         /\ lastkey' = k
         /\ IF /\ k >= 0 /\ k <= CEC_USER_CONTROL_CODE_MAX
               /\ d = 0 \/ k # lastkey
            THEN /\ mWorkerQueue' = mWorkerQueue \o Numbered(<<KeyCmd(k)>>, nAppended)
                 /\ mWorkerQueueWait' = TRUE
                 /\ nAppended' = nAppended + 1
            ELSE UNCHANGED <<mWorkerQueue, mWorkerQueueWait, nAppended>>
    /\ nEvents' = nEvents + 1
    /\ UNCHANGED <<mExecQueue, mExecQueueWait, avars, wvars, pvars, hvars, mCmdReady,
                   mProcessedSerial, mInExec, serial, child, calls, qlist, apc, budget,
                   xrest, pollvars, svars>>

\* CecKeyPressCallback(cbParam, key), all of it under lastkeyMutex: when the
\* key code is within 0 .. CEC_USER_CONTROL_CODE_MAX and the duration is 0 or
\* the key code is not lastkey, lastkey = key->keycode and
\* rem->PushCmd(cmd): push_back on mWorkerQueue under its mutex, then Signal.
CecKeyPressCallback ==
    /\ nEvents < MaxKeys
    /\ \E k \in KeyCodes, d \in Durations :
         /\ kev' = [keycode |-> k, duration |-> d]
         /\ IF /\ k >= 0 /\ k <= CEC_USER_CONTROL_CODE_MAX
               /\ d = 0 \/ k # lastkey
            THEN /\ lastkey' = k
                 /\ mWorkerQueue' = mWorkerQueue \o Numbered(<<KeyCmd(k)>>, nAppended)
                 /\ mWorkerQueueWait' = TRUE
                 /\ nAppended' = nAppended + 1
            ELSE UNCHANGED <<lastkey, mWorkerQueue, mWorkerQueueWait, nAppended>>
    /\ nEvents' = nEvents + 1
    /\ UNCHANGED <<mExecQueue, mExecQueueWait, avars, wvars, pvars, hvars, mCmdReady,
                   mProcessedSerial, mInExec, serial, child, calls, qlist, apc, budget,
                   xrest, pollvars, svars>>

NextKey == CecKeyPressCallback

KeySpec == Init /\ [][NextKey]_vars

\* the key code of the last event that was enqueued; none has the unknown code
LastEnqueued ==
    IF mWorkerQueue = << >> THEN CEC_USER_CONTROL_CODE_UNKNOWN
    ELSE mWorkerQueue[Len(mWorkerQueue)].mVal

\* the key code may be enqueued at all
Supported(k) == k \in 0 .. CEC_USER_CONTROL_CODE_MAX

\* C35: the callback appends exactly one key-press command, carrying the
\* event's key code, when the code is supported and the duration is 0 or the
\* code differs from that of the last event enqueued; on every other event
\* the queue and the remembered key stay as they are.  The release of the key
\* pressed last therefore appends nothing.
C35_OneCommandPerAcceptedKey ==
    /\ [][nEvents' = nEvents + 1 =>
            IF /\ Supported(kev'.keycode)
               /\ kev'.duration = 0 \/ kev'.keycode # LastEnqueued
            THEN /\ Len(mWorkerQueue') = Len(mWorkerQueue) + 1
                 /\ SubSeq(mWorkerQueue', 1, Len(mWorkerQueue)) = mWorkerQueue
                 /\ LastEnqueued' = kev'.keycode
                 /\ mWorkerQueue'[Len(mWorkerQueue')].mCmd = "CEC_KEYRPRESS"
            ELSE UNCHANGED <<mWorkerQueue, lastkey>>]_vars
    /\ [][(/\ nEvents' = nEvents + 1
           /\ kev.duration = 0 /\ Supported(kev.keycode) /\ nEvents > 0
           /\ kev'.keycode = kev.keycode /\ kev'.duration # 0) =>
            UNCHANGED mWorkerQueue]_vars

\* a press, its release and a second press of the same key have been
\* delivered: two commands are queued
C35_Witness ==
    /\ nEvents = 3
    /\ kev = [keycode |-> 1, duration |-> 0]
    /\ Len(mWorkerQueue) = 2
    /\ mWorkerQueue[1].mVal = 1 /\ mWorkerQueue[2].mVal = 1

(***************************************************************************)
(* cStatusMonitor: VDR's main thread reports volume changes, channel        *)
(* switches and replays.                                                   *)
(***************************************************************************)
\* The number of notifications a behaviour delivers.
MaxNotes == 3

\* mGlobalOptions.mAudioDevice, a configured <audiodevice>
AudioDevice == DevPlayer

\* cCmd cmd(CEC_VDRKEYPRESS, (int)key, &mAudioDevice)
VdrKeyCmd(key) == [mCmd |-> "CEC_VDRKEYPRESS", mVal |-> key, mSerial |-> NO_SERIAL,
                   mDevice |-> AudioDevice, id |-> 0, live |-> FALSE]

\* A configured one-command list of the named option.
OptionList(name) == << [mCmd |-> "CEC_MAKEACTIVE", mVal |-> name, mSerial |-> NO_SERIAL,
                        mDevice |-> cCECDevice, id |-> 0, live |-> FALSE] >>

\* What the calls of a notification leave in mWorkerQueue: PushCmd appends its
\* command, PushCmdQueue appends its list unless mCECAdapter is null.  subs
\* is the sequence of calls, each [call, arg].
RECURSIVE Submitted(_, _)
Submitted(subs, n) ==
    IF subs = << >> THEN << >>
    ELSE LET h == Head(subs)
             new == IF h.call = "PushCmd" THEN Numbered(<<VdrKeyCmd(h.arg)>>, n)
                    ELSE IF mCECAdapter = "nullptr" THEN << >>
                    ELSE Numbered(OptionList(h.arg), n)
         IN new \o Submitted(Tail(subs), n + Len(new))

\* The notification makes the calls subs, one after the other.
Submit(subs) ==
    LET new == Submitted(subs, nAppended) IN
    /\ mWorkerQueue' = mWorkerQueue \o new
    /\ mWorkerQueueWait' = (mWorkerQueueWait \/ new # << >>)
    /\ nAppended' = nAppended + Len(new)

\* the notifications received so far
Notes == seen.volume + seen.switch + seen.replay + seen.other

\* Volume of SetVolume: an absolute volume, or a step up or down
AbsoluteVolumes == {0, 5, 100}
VolumeSteps == {-5, 5}

\* int newvol = 128; if (mVolume > 0) newvol = mVolume;
\* if (!Absolute) newvol += Volume; else newvol = Volume;
NewVol(Volume, Absolute) ==
    IF Absolute THEN Volume
    ELSE (IF mVolume > 0 THEN mVolume ELSE 128) + Volume

\* The calls SetVolume makes: PushCmd of the volume key, and, when the
\* control is a cCECControl (a still picture player is running),
\* PushCmdQueue of its menu's mOnVolumeUp or mOnVolumeDown.
VolumeCalls(newvol, stillpic) ==
    IF mVolume = -1 \/ newvol = mVolume THEN << >>
    ELSE << [call |-> "PushCmd", arg |-> IF newvol > mVolume THEN "kVolUp" ELSE "kVolDn"] >>
         \o (IF stillpic
             THEN << [call |-> "PushCmdQueue",
                      arg |-> IF newvol > mVolume THEN "mOnVolumeUp" ELSE "mOnVolumeDown"] >>
             ELSE << >>)

\* cStatusMonitor::SetVolume(Volume, Absolute)
SetVolume ==
    /\ Notes < MaxNotes
    /\ \E Absolute \in BOOLEAN, stillpic \in BOOLEAN :
       \E Volume \in IF Absolute THEN AbsoluteVolumes ELSE VolumeSteps :
         LET newvol == NewVol(Volume, Absolute)
             subs == VolumeCalls(newvol, stillpic) IN
         /\ Submit(subs)
         /\ mVolume' = IF mVolume # -1 /\ newvol = mVolume THEN mVolume ELSE newvol
         /\ note' = [kind |-> "volume", newvol |-> newvol, sub |-> subs]
    /\ seen' = [seen EXCEPT !.volume = @ + 1]
    /\ UNCHANGED <<mMonitorStatus, mExecQueue, mExecQueueWait, avars, wvars, pvars, hvars,
                   mCmdReady, mProcessedSerial, mInExec, serial, child, calls, qlist, apc,
                   budget, xrest, pollvars, kvars>>

\* The worker connects at its start while the main thread reports volumes.
NextVolume == Action_Start \/ Connect_Init \/ Connect_Open \/ SetVolume

VolumeSpec == Init /\ [][NextVolume]_vars

\* C36: the first SetVolume a new monitor receives submits nothing and only
\* records the volume.
C36_FirstVolumeIgnored ==
    [][(seen.volume = 0 /\ seen'.volume = 1) =>
          /\ note'.sub = << >>
          /\ UNCHANGED mWorkerQueue
          /\ mVolume' = note'.newvol]_vars

\* What ChannelSwitch finds: Channels->GetByNumber gives no channel (channel
\* number 0), a channel with a video pid, or one without.
Channels == {"NULL", "TV", "RADIO"}

\* The call a channel switch makes: PushCmdQueue of mOnSwitchToRadio or
\* mOnSwitchToTV when the mode changes from a known one.
SwitchCalls(type, ignoreFirst) ==
    IF mMonitorStatus # type /\ (~ignoreFirst \/ mMonitorStatus # "UNKNOWN")
    THEN << [call |-> "PushCmdQueue",
             arg |-> IF type = "RADIO" THEN "mOnSwitchToRadio" ELSE "mOnSwitchToTV"] >>
    ELSE << >>

\* ChannelSwitch on the primary device with a channel, with or without the
\* "Ignore first switch" test.
SwitchTo(type, ignoreFirst) ==
    LET subs == SwitchCalls(type, ignoreFirst) IN
    /\ Submit(subs)
    /\ mMonitorStatus' = type
    /\ note' = [kind |-> "switch", type |-> type, sub |-> subs]
    /\ seen' = [seen EXCEPT !.switch = @ + 1]

\* A switch that changes nothing: another device's, or no channel.
SwitchElsewhere ==
    /\ note' = [kind |-> "none", sub |-> << >>]
    /\ seen' = [seen EXCEPT !.other = @ + 1]
    /\ UNCHANGED <<mMonitorStatus, mWorkerQueue, mWorkerQueueWait, nAppended>>

\* A ChannelSwitch that submits the list on the first switch too.
ChannelSwitch_NoIgnore ==
    /\ Notes < MaxNotes
    /\ \E primary \in BOOLEAN, channel \in Channels :
         IF primary /\ channel # "NULL" THEN SwitchTo(channel, FALSE) ELSE SwitchElsewhere
    /\ UNCHANGED <<mVolume, mExecQueue, mExecQueueWait, avars, wvars, pvars, hvars,
                   mCmdReady, mProcessedSerial, mInExec, serial, child, calls, qlist, apc,
                   budget, xrest, pollvars, kvars>>

\* cStatusMonitor::ChannelSwitch(Device, ChannelNumber, LiveView)
ChannelSwitch ==
    /\ Notes < MaxNotes
    /\ \E primary \in BOOLEAN, channel \in Channels :
         IF primary /\ channel # "NULL" THEN SwitchTo(channel, TRUE) ELSE SwitchElsewhere
    /\ UNCHANGED <<mVolume, mExecQueue, mExecQueueWait, avars, wvars, pvars, hvars,
                   mCmdReady, mProcessedSerial, mInExec, serial, child, calls, qlist, apc,
                   budget, xrest, pollvars, kvars>>

\* cStatusMonitor::Replaying(Control, Name, FileName, On)
Replaying ==
    /\ Notes < MaxNotes
    /\ \E On \in BOOLEAN :
         IF On
         THEN LET subs == IF mMonitorStatus # "REPLAYING"
                          THEN << [call |-> "PushCmdQueue", arg |-> "mOnSwitchToReplay"] >>
                          ELSE << >> IN
              /\ Submit(subs)
              /\ mMonitorStatus' = "REPLAYING"
              /\ note' = [kind |-> "replay", sub |-> subs]
              /\ seen' = [seen EXCEPT !.replay = @ + 1]
         ELSE SwitchElsewhere
    /\ UNCHANGED <<mVolume, mExecQueue, mExecQueueWait, avars, wvars, pvars, hvars,
                   mCmdReady, mProcessedSerial, mInExec, serial, child, calls, qlist, apc,
                   budget, xrest, pollvars, kvars>>

\* The worker connects at its start while the main thread reports channel
\* switches and replays.
NextChannel == Action_Start \/ Connect_Init \/ Connect_Open \/ ChannelSwitch \/ Replaying

ChannelSpec == Init /\ [][NextChannel]_vars

\* a channel switch on the primary device that found a channel
SwitchStep == seen'.switch = seen.switch + 1

NextAppend ==
    \/ Action_Start \/ Connect_Init \/ Connect_Open \/ WaitCmd
    \/ Action_KeyPress \/ Action_Power \/ Action_MakeActive \/ Action_Disconnect
    \/ Action_Store \/ Action_Signal
    \/ PushCmd("CEC_KEYRPRESS")
    \/ PushCmdQueue_Check(OnPowerOn)
    \/ PushCmdQueue_Push
    \/ PushWaitCmd_Begin("svdrp", "CEC_DISCONNECT")
    \/ PushWaitCmd_Push("svdrp")
    \/ PushWaitCmd_Wait("svdrp")
    \/ PushWaitCmd_Check("svdrp")

AppendSpec == InitWrap /\ [][NextAppend]_vars

\* The second command of the list is in the queue right behind the first, or
\* the first has been taken by the worker.
BlockContiguous ==
    \A i, j \in DOMAIN mWorkerQueue :
        (/\ mWorkerQueue[j].mCmd = "CEC_MAKEACTIVE"
         /\ mWorkerQueue[i].id = mWorkerQueue[j].id - 1) => i = j - 1

\* C38: PushCmdQueue takes up a list only when mCECAdapter is set, and then
\* appends all of it in one step, in list order, at the tail of the normal
\* queue; no command of another producer ever stands between two commands of
\* the list.  With mCECAdapter null the call changes nothing.
C38_ListAppendedAsOneBlock ==
    /\ [][(qlist = << >> /\ qlist' # << >>) =>
            (mCECAdapter # "nullptr" /\ UNCHANGED <<mWorkerQueue, nAppended>>)]_vars
    /\ [][(qlist # << >> /\ qlist' # qlist) =>
            /\ qlist' = << >>
            /\ Len(mWorkerQueue') = Len(mWorkerQueue) + Len(qlist)
            /\ SubSeq(mWorkerQueue', 1, Len(mWorkerQueue)) = mWorkerQueue
            /\ \A i \in DOMAIN qlist :
                 /\ mWorkerQueue'[Len(mWorkerQueue) + i].mCmd = qlist[i].mCmd
                 /\ mWorkerQueue'[Len(mWorkerQueue) + i].id = nAppended + i]_vars
    /\ []BlockContiguous

\* the two commands of the list stand in the queue in front of an SVDRP DISC
\* that was appended after them
C38_Witness ==
    /\ Len(mWorkerQueue) = 3
    /\ mWorkerQueue[1].mCmd = "CEC_POWERON"
    /\ mWorkerQueue[2].mCmd = "CEC_MAKEACTIVE"
    /\ mWorkerQueue[3].mCmd = "CEC_DISCONNECT"
    /\ mWorkerQueue[3].id = 3

(***************************************************************************)
(* Stop(), called once by the main thread.                                 *)
(***************************************************************************)
\* A configured <onstop> list.
OnStop == << cCmd("CEC_POWEROFF", DevPlayer) >>

\* Stop(): PushCmdQueue(mOnStop), up to its test of mCECAdapter; the list is
\* appended by PushCmdQueue_Push.
Stop_PushCmdQueue ==
    /\ spc = "none"
    /\ qlist = << >>
    /\ nAppended + Reserved + Len(OnStop) < budget
    /\ qlist' = IF mCECAdapter = "nullptr" THEN << >> ELSE OnStop
    /\ spc' = IF mCECAdapter = "nullptr" THEN "skipped" ELSE "pushed"
    /\ UNCHANGED <<budget, startConn, mvars, cvars, lbus, gvars, power, device, res, mDeferredStartup, mStartManually, hpc, offThread, elapsed,
                   qvars, avars, wvars, pvars, hvars, mCmdReady, mProcessedSerial,
                   mInExec, serial, child, calls, apc, nAppended>>

\* Stop(): cCmd cmd(CEC_EXIT); PushWaitCmd(cmd), once PushCmdQueue has
\* returned.
Stop_PushWaitCmd ==
    /\ spc \in {"skipped", "pushed"}
    /\ qlist = << >>
    /\ PushWaitCmd_Serial("main", "CEC_EXIT")
    /\ spc' = "exit"
    /\ UNCHANGED <<startConn, mvars, cvars, lbus, gvars, power, device, res, mDeferredStartup, mStartManually, hpc, offThread,
                   elapsed>>

\* Stop(): PushWaitCmd has returned, and so does Stop.
Stop_Return ==
    /\ spc = "exit"
    /\ ppc["main"] = "idle"
    /\ spc' = "returned"
    /\ UNCHANGED <<budget, startConn, mvars, cvars, lbus, gvars, power, device, res, mDeferredStartup, mStartManually, hpc, offThread, elapsed,
                   qvars, avars, wvars, pvars, hvars, mCmdReady, mProcessedSerial,
                   mInExec, serial, child, calls, qlist, apc, nAppended>>

NextStop ==
    \/ Action_Start \/ Connect_Init \/ Connect_Open \/ WaitCmd
    \/ Action_Power \/ Action_Exit \/ Action_Store \/ Action_Signal
    \/ Stop_PushCmdQueue \/ PushCmdQueue_Push \/ Stop_PushWaitCmd \/ Stop_Return
    \/ PushWaitCmd_Push("main")
    \/ PushWaitCmd_Wait("main")
    \/ PushWaitCmd_Check("main")

StopSpec == Init /\ [][NextStop]_vars

\* Stop() has returned.
StopReturned == spc = "returned"

\* The ids of the commands of the given kind taken by the worker or waiting in
\* the normal queue.
NormalIds(kind) ==
    {log[k].cmd.id : k \in {j \in DOMAIN log : log[j].from = "worker" /\ log[j].cmd.mCmd = kind}}
    \cup {mWorkerQueue[i].id : i \in {j \in DOMAIN mWorkerQueue : mWorkerQueue[j].mCmd = kind}}

\* C15: whenever the exit command of Stop is in the normal queue or has been
\* taken from it, every command of the on-stop list has been appended to the
\* normal queue ahead of it, and Stop has returned only if the worker has
\* dispatched that exit command.
C15_StopRunsListThenExit ==
    /\ \A e \in NormalIds("CEC_EXIT") :
          \A i \in DOMAIN OnStop : \E n \in NormalIds(OnStop[i].mCmd) : n < e
    /\ StopReturned =>
          /\ NormalIds("CEC_EXIT") # {}
          /\ NormalIds("CEC_EXIT") \subseteq done

(***************************************************************************)
(* Startup(), called by the host thread, next to the worker it has started.*)
(***************************************************************************)
\* The state right after Start() in Startup(): the worker runs, the host is
\* about to test mCECAdapter; the start was manual or by timer.
InitHost ==
    /\ Constructed
    /\ SerialIdle
    /\ CallbackIdle
    /\ lbus = BusEmpty
    /\ startConn = "none"
    /\ PollIdle
    /\ KeyIdle
    /\ MonitorIdle
    /\ power = "standby"
    /\ device = cCECDevice
    /\ res = NoResult
    /\ mDeferredStartup = FALSE
    /\ mStartManually \in BOOLEAN
    /\ hpc = "test"
    /\ spc = "none"
    /\ offThread = {}
    /\ elapsed = [t \in Waiters |-> [wait |-> 0, total |-> 0]]
    /\ budget = MaxCmds

\* Startup(): if (mCECAdapter == nullptr)
Startup_Test ==
    /\ hpc = "test"
    /\ hpc' = IF mCECAdapter = "nullptr" THEN "defer"
              ELSE IF mStartManually THEN "manual" ELSE "start"
    /\ UNCHANGED <<budget, startConn, mvars, cvars, lbus, gvars, power, device, res, mDeferredStartup, mStartManually, spc,
                   offThread, elapsed, qvars, avars, wvars, pvars, hvars, mCmdReady,
                   mProcessedSerial, mInExec, serial, child, calls, qlist, apc, nAppended>>

\* Startup(): mDeferredStartup = true
Startup_Defer ==
    /\ hpc = "defer"
    /\ mDeferredStartup' = TRUE
    /\ hpc' = "done"
    /\ UNCHANGED <<budget, startConn, mvars, cvars, lbus, gvars, power, device, res, mStartManually, spc, offThread, elapsed,
                   qvars, avars, wvars, pvars, hvars, mCmdReady, mProcessedSerial,
                   mInExec, serial, child, calls, qlist, apc, nAppended>>

\* Startup(): PushCmdQueue(mOnManualStart), up to its test of mCECAdapter.
Startup_PushManual ==
    /\ hpc = "manual"
    /\ qlist = << >>
    /\ qlist' = IF mCECAdapter = "nullptr" THEN << >> ELSE OnManualStart
    /\ hpc' = "start"
    /\ UNCHANGED <<budget, startConn, mvars, cvars, lbus, gvars, power, device, res, mDeferredStartup, mStartManually, spc,
                   offThread, elapsed, qvars, avars, wvars, pvars, hvars, mCmdReady,
                   mProcessedSerial, mInExec, serial, child, calls, apc, nAppended>>

\* Startup(): PushCmdQueue(mOnStart), up to its test of mCECAdapter.
Startup_PushStart ==
    /\ hpc = "start"
    /\ qlist = << >>
    /\ qlist' = IF mCECAdapter = "nullptr" THEN << >> ELSE OnStart
    /\ hpc' = "done"
    /\ UNCHANGED <<budget, startConn, mvars, cvars, lbus, gvars, power, device, res, mDeferredStartup, mStartManually, spc,
                   offThread, elapsed, qvars, avars, wvars, pvars, hvars, mCmdReady,
                   mProcessedSerial, mInExec, serial, child, calls, apc, nAppended>>

\* ListDevices(), called by the SVDRP thread for LSTD: with no adapter it
\* returns a message, else it enumerates the devices through the adapter.
ListDevices ==
    /\ ppc["svdrp"] = "idle"
    /\ IF mCECAdapter = "nullptr"
       THEN offThread' = offThread
       ELSE \E bus \in Buses :
              offThread' = offThread
                  \cup {"GetActiveDevices", "GetLogicalAddresses"}
                  \cup (IF bus.active # {}
                        THEN {"GetDevicePhysicalAddress", "GetDeviceOSDName",
                              "GetDeviceVendorId", "GetDevicePowerStatus", "ToString"}
                        ELSE {})
    /\ UNCHANGED <<budget, startConn, mvars, cvars, lbus, gvars, power, device, res, mDeferredStartup, mStartManually, hpc, spc,
                   elapsed, qvars, avars, wvars, pvars, hvars, mCmdReady,
                   mProcessedSerial, mInExec, serial, child, calls, qlist, apc, nAppended>>

NextHost ==
    \/ Action_Start \/ Connect_Init \/ Connect_Open \/ WaitCmd
    \/ Action_Power \/ Action_MakeActive \/ Action_Connect
    \/ Action_Store \/ Action_Signal
    \/ Startup_Test \/ Startup_Defer \/ Startup_PushManual \/ Startup_PushStart
    \/ PushCmdQueue_Push \/ ListDevices
    \/ PushWaitCmd_Begin("svdrp", "CEC_CONNECT")
    \/ PushWaitCmd_Push("svdrp")
    \/ PushWaitCmd_Wait("svdrp")
    \/ PushWaitCmd_Check("svdrp")

HostSpec == InitHost /\ [][NextHost]_vars

\* Startup() has returned on the host thread and the worker is outside
\* Connect() with the adapter open: a connection attempt has succeeded.
StartedAndConnected ==
    /\ hpc = "done"
    /\ qlist = << >>
    /\ adapterOpen
    /\ wpc \notin {"start", "connect", "open"}

\* C16: once Startup() has returned and a connection attempt has succeeded,
\* the start list has been appended to the normal queue exactly once, and the
\* manual-start list exactly once and before it when the start was manual,
\* not at all otherwise; no list is ever appended twice.
C16_StartListsExactlyOnce ==
    /\ Cardinality(NormalIds("CEC_POWERON")) <= 1
    /\ Cardinality(NormalIds("CEC_MAKEACTIVE")) <= 1
    /\ StartedAndConnected =>
          /\ Cardinality(NormalIds("CEC_POWERON")) = 1
          /\ Cardinality(NormalIds("CEC_MAKEACTIVE")) = IF mStartManually THEN 1 ELSE 0
          /\ \A m \in NormalIds("CEC_MAKEACTIVE") :
                \A n \in NormalIds("CEC_POWERON") : m < n

\* C17: no thread other than the worker has called a method of the adapter
\* handle.
C17_AdapterCallsOnWorkerOnly == offThread = {}

(***************************************************************************)
(* PushWaitCmd with the time its caller spends in mCmdReady.Wait(timeout).  *)
(***************************************************************************)
\* The timeout of PushWaitCmd, in ticks of the clock.
Timeout == 2

\* PushWaitCmd(cmd, timeout) is entered: the caller's clock starts.
PushWaitCmd_TimedBegin(t, kind) ==
    /\ PushWaitCmd_Serial(t, kind)
    /\ elapsed' = [elapsed EXCEPT ![t] = [wait |-> 0, total |-> 0]]
    /\ UNCHANGED <<startConn, mvars, cvars, lbus, gvars, power, device, res, mDeferredStartup, mStartManually, hpc, spc,
                   offThread>>

\* One tick passes for every caller blocked in mCmdReady.Wait(timeout): the
\* flag is not set, or Wait would have returned, and no Wait has run for
\* longer than its timeout.
Tick ==
    /\ \E t \in Waiters : ppc[t] = "wait"
    /\ ~mCmdReady
    /\ \A t \in Waiters : ppc[t] = "wait" => elapsed[t].wait < Timeout
    /\ elapsed' = [t \in Waiters |->
                     IF ppc[t] = "wait"
                     THEN [wait |-> elapsed[t].wait + 1, total |-> elapsed[t].total + 1]
                     ELSE elapsed[t]]
    /\ UNCHANGED <<budget, startConn, mvars, cvars, lbus, gvars, power, device, res, mDeferredStartup, mStartManually, hpc, spc,
                   offThread, qvars, avars, wvars, pvars, hvars, mCmdReady,
                   mProcessedSerial, mInExec, serial, child, calls, qlist, apc, nAppended>>

\* signaled = mCmdReady.Wait(timeout): returns true and clears the flag as
\* soon as the flag is set, false when timeout has passed in this call; the
\* next call waits for a whole timeout again.
PushWaitCmd_TimedWait(t) ==
    /\ ppc[t] = "wait"
    /\ mCmdReady \/ elapsed[t].wait = Timeout
    /\ psig' = [psig EXCEPT ![t] = mCmdReady]
    /\ mCmdReady' = FALSE
    /\ ppc' = [ppc EXCEPT ![t] = "check"]
    /\ elapsed' = [elapsed EXCEPT ![t].wait = 0]
    /\ UNCHANGED <<budget, startConn, mvars, cvars, lbus, gvars, power, device, res, mDeferredStartup, mStartManually, hpc, spc,
                   offThread, qvars, avars, wvars, hvars, pcmd, proute,
                   mProcessedSerial, mInExec, serial, child, calls, qlist, apc, nAppended>>

NextTimed ==
    \/ Action_Start \/ Connect_Init \/ Connect_Open \/ WaitCmd
    \/ Action_Connect \/ Action_Disconnect \/ Action_Exit
    \/ Action_Store \/ Action_Signal
    \/ Tick
    \/ \E t \in Waiters :
         \/ \E kind \in PushWaitKinds(t) : PushWaitCmd_TimedBegin(t, kind)
         \/ PushWaitCmd_Push(t)
         \/ PushWaitCmd_TimedWait(t)
         \/ PushWaitCmd_Check(t)

TimedSpec == Init /\ [][NextTimed]_vars

\* C18: no caller of PushWaitCmd has been waiting for longer than one
\* timeout since it started to wait.
C18_WaitBoundedByTimeout ==
    \A t \in Waiters : elapsed[t].total <= Timeout

\* SVDRPCommand returns its reply to DISC or CONN: PushWaitCmd returns on the
\* SVDRP thread, and "Disconnected" or "Connected" is returned right after.
SvdrpReplies == ppc["svdrp"] = "check" /\ ppc'["svdrp"] = "idle"

\* C19: when SVDRPCommand replies, the command it submitted has been
\* dispatched, and the adapter handle is null for the reply "Disconnected"
\* and set for the reply "Connected".
C19_ReplyReflectsState ==
    [][SvdrpReplies =>
          /\ pcmd["svdrp"].id \in done
          /\ pcmd["svdrp"].mCmd = "CEC_DISCONNECT" => mCECAdapter = "nullptr"
          /\ pcmd["svdrp"].mCmd = "CEC_CONNECT" => mCECAdapter # "nullptr"]_vars

(***************************************************************************)
(* getSerial called again and again on one command.                        *)
(***************************************************************************)
\* int serial = cmd.getSerial(); cmd.mSerial = serial; as PushWaitCmd does
\* with the command it is given, here the same command object every time.
GetSerial_Call ==
    /\ ppc["main"] = "idle"
    /\ serial' = getSerial(serial, SERIAL_WRAP)
    /\ pcmd' = [pcmd EXCEPT !["main"].mSerial = getSerial(serial, SERIAL_WRAP)]
    /\ UNCHANGED <<budget, xvars, qvars, avars, wvars, hvars, ppc, proute, psig, mCmdReady,
                   mProcessedSerial, mInExec, child, calls, qlist, apc, nAppended>>

NextSerial == GetSerial_Call

SerialSpec == Init /\ [][NextSerial]_vars

\* C20: getSerial called on a command whose serial is set returns that
\* serial and leaves the shared counter as it is.
C20_AssignIfUnassigned ==
    [][(pcmd["main"].mSerial # NO_SERIAL /\ pcmd' # pcmd)
         => /\ serial' = serial
            /\ pcmd'["main"].mSerial = pcmd["main"].mSerial]_vars

(***************************************************************************)
(* getSerial statement by statement, called by two threads at once.        *)
(***************************************************************************)
\* A getSerial that enters without taking mSerialMutex.
GetSerial_Lock_NoMutex(t) ==
    /\ gpc[t] = "idle"
    /\ gAllocs < SERIAL_WRAP + MaxCmds
    /\ gpc' = [gpc EXCEPT ![t] = "load"]
    /\ UNCHANGED <<budget, mSerialMutex, gtmp, gidx, gAllocs, lastAlloc, startConn, mvars, cvars, lbus, power, device, res,
                   mDeferredStartup, mStartManually, hpc, spc, offThread, elapsed, qvars,
                   avars, wvars, pvars, hvars, mCmdReady, mProcessedSerial, mInExec,
                   serial, child, calls, qlist, apc, nAppended>>

\* mSerialMutex.Lock(): the caller goes on when the mutex is free.
GetSerial_Lock(t) ==
    /\ gpc[t] = "idle"
    /\ gAllocs < SERIAL_WRAP + MaxCmds
    /\ mSerialMutex = "free"
    /\ mSerialMutex' = t
    /\ gpc' = [gpc EXCEPT ![t] = "load"]
    /\ UNCHANGED <<budget, gtmp, gidx, gAllocs, lastAlloc, startConn, mvars, cvars, lbus, power, device, res,
                   mDeferredStartup, mStartManually, hpc, spc, offThread, elapsed, qvars,
                   avars, wvars, pvars, hvars, mCmdReady, mProcessedSerial, mInExec,
                   serial, child, calls, qlist, apc, nAppended>>

\* serial++, first half: the counter is read.
GetSerial_Load(t) ==
    /\ gpc[t] = "load"
    /\ gtmp' = [gtmp EXCEPT ![t] = serial]
    /\ gpc' = [gpc EXCEPT ![t] = "store"]
    /\ UNCHANGED <<budget, mSerialMutex, gidx, gAllocs, lastAlloc, startConn, mvars, cvars, lbus, power, device, res,
                   mDeferredStartup, mStartManually, hpc, spc, offThread, elapsed, qvars,
                   avars, wvars, pvars, hvars, mCmdReady, mProcessedSerial, mInExec,
                   serial, child, calls, qlist, apc, nAppended>>

\* serial++, second half: the value read plus one is written back. This is
\* the allocation; allocations are numbered in the order of these writes.
GetSerial_Store(t) ==
    /\ gpc[t] = "store"
    /\ serial' = gtmp[t] + 1
    /\ gAllocs' = gAllocs + 1
    /\ gidx' = [gidx EXCEPT ![t] = gAllocs + 1]
    /\ gpc' = [gpc EXCEPT ![t] = "wrap"]
    /\ UNCHANGED <<budget, mSerialMutex, gtmp, lastAlloc, startConn, mvars, cvars, lbus, power, device, res,
                   mDeferredStartup, mStartManually, hpc, spc, offThread, elapsed, qvars,
                   avars, wvars, pvars, hvars, mCmdReady, mProcessedSerial, mInExec,
                   child, calls, qlist, apc, nAppended>>

\* if (serial > 10000) { serial = 1; }
GetSerial_Wrap(t) ==
    /\ gpc[t] = "wrap"
    /\ serial' = IF serial > SERIAL_WRAP THEN 1 ELSE serial
    /\ gpc' = [gpc EXCEPT ![t] = "ret"]
    /\ UNCHANGED <<budget, mSerialMutex, gtmp, gidx, gAllocs, lastAlloc, startConn, mvars, cvars, lbus, power, device, res,
                   mDeferredStartup, mStartManually, hpc, spc, offThread, elapsed, qvars,
                   avars, wvars, pvars, hvars, mCmdReady, mProcessedSerial, mInExec,
                   child, calls, qlist, apc, nAppended>>

\* ret = serial: the value this call returns.
GetSerial_Ret(t) ==
    /\ gpc[t] = "ret"
    /\ gtmp' = [gtmp EXCEPT ![t] = serial]
    /\ lastAlloc' = [idx |-> gidx[t], val |-> serial]
    /\ gpc' = [gpc EXCEPT ![t] = "unlock"]
    /\ UNCHANGED <<budget, mSerialMutex, gidx, gAllocs, startConn, mvars, cvars, lbus, power, device, res,
                   mDeferredStartup, mStartManually, hpc, spc, offThread, elapsed, qvars,
                   avars, wvars, pvars, hvars, mCmdReady, mProcessedSerial, mInExec,
                   serial, child, calls, qlist, apc, nAppended>>

\* mSerialMutex.Unlock(); return ret;
GetSerial_Unlock(t) ==
    /\ gpc[t] = "unlock"
    /\ mSerialMutex' = IF mSerialMutex = t THEN "free" ELSE mSerialMutex
    /\ gtmp' = [gtmp EXCEPT ![t] = 0]
    /\ gidx' = [gidx EXCEPT ![t] = 0]
    /\ gpc' = [gpc EXCEPT ![t] = "idle"]
    /\ UNCHANGED <<budget, gAllocs, lastAlloc, startConn, mvars, cvars, lbus, power, device, res,
                   mDeferredStartup, mStartManually, hpc, spc, offThread, elapsed, qvars,
                   avars, wvars, pvars, hvars, mCmdReady, mProcessedSerial, mInExec,
                   serial, child, calls, qlist, apc, nAppended>>

NextAlloc ==
    \E t \in Waiters :
        \/ GetSerial_Lock(t)
        \/ GetSerial_Load(t)
        \/ GetSerial_Store(t)
        \/ GetSerial_Wrap(t)
        \/ GetSerial_Ret(t)
        \/ GetSerial_Unlock(t)

AllocSpec == Init /\ [][NextAlloc]_vars

\* C21: every serial getSerial returns lies in 1..10000, and the n-th
\* allocation returns (n mod 10000) + 1: the counter wraps from 10000 to 1,
\* and two allocations, whichever threads make them, return the same value
\* only if their numbers differ by a multiple of 10000.
C21_SerialsInRangeAndDistinct ==
    lastAlloc.idx > 0 =>
        /\ lastAlloc.val \in 1 .. SERIAL_WRAP
        /\ lastAlloc.val = (lastAlloc.idx % SERIAL_WRAP) + 1

\* The counter has wrapped: the allocation after the one that returned 10000
\* has returned 1, and its caller still holds the mutex.
C21_Witness ==
    /\ lastAlloc = [idx |-> SERIAL_WRAP, val |-> 1]
    /\ \E t \in Waiters : gpc[t] = "unlock"

(***************************************************************************)
(* CecCommandCallback, run by the adapter's thread next to the worker.     *)
(***************************************************************************)
\* The open adapter receives a command from the bus and calls the callback.
CecCommandCallback_Enter ==
    /\ cbpc = "idle"
    /\ adapterOpen
    /\ nAppended + Reserved < budget
    /\ cbpc' = "test"
    /\ UNCHANGED <<budget, cbUse, startConn, mvars, lbus, gvars, power, device, res, mDeferredStartup, mStartManually,
                   hpc, spc, offThread, elapsed, qvars, avars, wvars, pvars, hvars, mCmdReady,
                   mProcessedSerial, mInExec, serial, child, calls, qlist, apc, nAppended>>

\* if (rem->mCECAdapter == nullptr) { Dsyslog(...); return; }
CecCommandCallback_Test ==
    /\ cbpc = "test"
    /\ IF mCECAdapter = "nullptr"
       THEN cbpc' = "idle" /\ cbUse' = "ignored"
       ELSE cbpc' = "tostring" /\ UNCHANGED cbUse
    /\ UNCHANGED <<budget, startConn, mvars, lbus, gvars, power, device, res, mDeferredStartup, mStartManually,
                   hpc, spc, offThread, elapsed, qvars, avars, wvars, pvars, hvars, mCmdReady,
                   mProcessedSerial, mInExec, serial, child, calls, qlist, apc, nAppended>>

\* rem->mCECAdapter->ToString(command->opcode): the member is read without
\* any lock while the worker may write it.  When the worker has run
\* Disconnect since the test, the call is made on the null pointer if the
\* member is read again and on the closed and unloaded adapter if the value
\* read for the test is reused.
CecCommandCallback_ToString ==
    /\ cbpc = "tostring"
    /\ cbUse' \in (IF mCECAdapter = "nullptr" THEN {"nullptr", "closed"} ELSE {"adapter"})
    /\ cbpc' = "push"
    /\ UNCHANGED <<budget, startConn, mvars, lbus, gvars, power, device, res, mDeferredStartup, mStartManually,
                   hpc, spc, offThread, elapsed, qvars, avars, wvars, pvars, hvars, mCmdReady,
                   mProcessedSerial, mInExec, serial, child, calls, qlist, apc, nAppended>>

\* cCmd cmd(CEC_COMMAND, opcode, initiator); rem->PushCmd(cmd);
CecCommandCallback_Push ==
    /\ cbpc = "push"
    /\ mWorkerQueue' = mWorkerQueue \o Numbered(<<cCmd("CEC_COMMAND", cCECDevice)>>, nAppended)
    /\ mWorkerQueueWait' = TRUE
    /\ nAppended' = nAppended + 1
    /\ cbpc' = "idle"
    /\ UNCHANGED <<budget, cbUse, startConn, mvars, lbus, gvars, power, device, res, mDeferredStartup, mStartManually,
                   hpc, spc, offThread, elapsed, mExecQueue, mExecQueueWait, avars, wvars, pvars, hvars,
                   mCmdReady, mProcessedSerial, mInExec, serial, child, calls, qlist, apc>>

\* case CEC_COMMAND: CECCommand(cmd) executes the command lists of the
\* handlers registered for the opcode; no handler is configured.
Action_Command ==
    /\ wpc = "action"
    /\ cmd.mCmd = "CEC_COMMAND"
    /\ EndSwitch
    /\ UNCHANGED <<budget, xvars, qvars, avars, pvars, log, pubs, sigs, wret, cmd, ecmd, addr, running,
                   mCmdReady, mProcessedSerial, mInExec, serial, child, calls, qlist,
                   apc, nAppended>>

NextCallback ==
    \/ Action_Start \/ Connect_Init \/ Connect_Open \/ WaitCmd
    \/ Action_Command \/ Action_Disconnect \/ Action_Store \/ Action_Signal
    \/ CecCommandCallback_Enter \/ CecCommandCallback_Test
    \/ CecCommandCallback_ToString \/ CecCommandCallback_Push
    \/ PushWaitCmd_Begin("svdrp", "CEC_DISCONNECT")
    \/ PushWaitCmd_Push("svdrp")
    \/ PushWaitCmd_Wait("svdrp")
    \/ PushWaitCmd_Check("svdrp")

CallbackSpec == Init /\ [][NextCallback]_vars

\* C24: whatever the interleaving of CecCommandCallback with the worker's
\* Disconnect, the callback calls ToString only on an adapter handle that is
\* set and has not been closed and unloaded.
C24_CallbackUsesLiveAdapter == cbUse \notin {"nullptr", "closed"}

(***************************************************************************)
(* Device commands dispatched while the adapter is not connected.          *)
(***************************************************************************)
\* The kinds of Action's switch that test mCECAdapter before they use it.
DeviceKinds == {"CEC_POWERON", "CEC_POWEROFF", "CEC_TEXTVIEWON", "CEC_MAKEACTIVE",
                "CEC_MAKEINACTIVE", "CEC_VDRKEYPRESS"}

\* Configured command lists of one device command each.
DeviceLists == { << cCmd(k, DevPlayer) >> : k \in DeviceKinds }

\* The worker serves device commands of configured lists and of a menu's
\* toggle, next to an SVDRP DISC.
NextNull ==
    \/ Action_Start \/ Connect_Init \/ Connect_Open \/ WaitCmd
    \/ Action_Power \/ Action_TextViewOn \/ Action_MakeActive \/ Action_MakeInactive
    \/ Action_VdrKeyPress \/ Action_ExecToggle \/ Action_Disconnect
    \/ Action_Store \/ Action_Signal
    \/ \E list \in DeviceLists : PushCmdQueue_Check(list)
    \/ PushCmdQueue_Push
    \/ PushWaitCmd_Begin("main", "CEC_EXECTOGGLE")
    \/ PushWaitCmd_Begin("svdrp", "CEC_DISCONNECT")
    \/ \E t \in Waiters :
         \/ PushWaitCmd_Push(t)
         \/ PushWaitCmd_Wait(t)
         \/ PushWaitCmd_Check(t)

NullSpec == Init /\ [][NextNull]_vars

\* The worker is at the given position with a device command in hand and no
\* adapter, and takes a step.
NullStep(pos) ==
    /\ wpc = pos /\ wpc' # pos
    /\ cmd.mCmd \in DeviceKinds
    /\ mCECAdapter = "nullptr"

\* C28: a device command dispatched while the adapter handle is null makes
\* no adapter call, is not put back into a queue, leaves the handle null and
\* both queues as they are, and completes: the switch is left for the store
\* of the serial, which publishes the serial of the command if it is set.
C28_NullAdapterSkipsCommand ==
    [][/\ NullStep("action") =>
            /\ calls' = calls
            /\ mWorkerQueue' = mWorkerQueue /\ mExecQueue' = mExecQueue
            /\ mCECAdapter' = "nullptr"
            /\ wpc' = "store" /\ cmd' = cmd /\ cmd.id \in done'
       /\ NullStep("store") =>
            /\ calls' = calls
            /\ mWorkerQueue' = mWorkerQueue /\ mExecQueue' = mExecQueue
            /\ mCECAdapter' = "nullptr"
            /\ cmd.mSerial # NO_SERIAL => mProcessedSerial' = cmd.mSerial]_vars

\* A device command with a serial has been dispatched without an adapter: no
\* adapter call has been made since the disconnect, and its serial is
\* published.
C28_Witness ==
    /\ wpc = "signal"
    /\ cmd.mCmd \in DeviceKinds
    /\ cmd.mSerial # NO_SERIAL
    /\ mCECAdapter = "nullptr"
    /\ cmd.id \in done
    /\ mProcessedSerial = cmd.mSerial

(***************************************************************************)
(* getLogical applied again and again to one device descriptor.            *)
(***************************************************************************)
\* The default device "TV" the configuration parser puts into the device map:
\* defined and used logical address CECDEVICE_TV, no physical address.
DeviceTV == [mPhysicalAddress |-> 0, mLogicalAddressDefined |-> CECDEVICE_TV,
             mLogicalAddressUsed |-> CECDEVICE_TV]

\* Device descriptors as the configuration parser builds them: a physical
\* address or none (0), a configured logical address or none, nothing cached;
\* and the default device.
ParsedDevices ==
    { [mPhysicalAddress |-> p, mLogicalAddressDefined |-> d,
       mLogicalAddressUsed |-> CECDEVICE_UNKNOWN] :
        p \in {0, 4096, 8192}, d \in {CECDEVICE_UNKNOWN, 0, 1, 4, 5} }
    \cup {DeviceTV}

InitLogical ==
    /\ Constructed
    /\ SerialIdle
    /\ CallbackIdle
    /\ lbus = BusEmpty
    /\ startConn = "none"
    /\ PollIdle
    /\ KeyIdle
    /\ MonitorIdle
    /\ power = "standby"
    /\ device \in ParsedDevices
    /\ res = NoResult
    /\ mDeferredStartup = FALSE
    /\ mStartManually = FALSE
    /\ hpc = "done"
    /\ spc = "none"
    /\ offThread = {}
    /\ elapsed = [t \in Waiters |-> [wait |-> 0, total |-> 0]]
    /\ budget = MaxCmds

\* getLogical(dev) as the worker calls it from a case of Action: with no
\* adapter it returns CECDEVICE_UNKNOWN, else it resolves dev on the bus as
\* it is at that moment.
GetLogical_Call ==
    /\ wpc = "wait"
    /\ IF mCECAdapter = "nullptr"
       THEN /\ res' = NoResult
            /\ device' = device
       ELSE \E bus \in Buses :
              LET r == getLogical(device, bus) IN
              /\ res' = [addr |-> r.addr, queries |-> r.queries]
              /\ device' = r.dev
    /\ UNCHANGED <<budget, startConn, mvars, cvars, lbus, gvars, power, mDeferredStartup, mStartManually, hpc, spc, offThread, elapsed, qvars,
                   avars, wvars, pvars, hvars, mCmdReady, mProcessedSerial, mInExec,
                   serial, child, calls, qlist, apc, nAppended>>

NextLogical ==
    \/ Action_Start \/ Connect_Init \/ Connect_Open \/ GetLogical_Call

LogicalSpec == InitLogical /\ [][NextLogical]_vars

\* C12: a getLogical call on a descriptor whose used logical address is set,
\* made while connected, returns that address, queries the adapter for
\* nothing and leaves the descriptor as it is.
C12_CachedAddressStable ==
    [][(/\ wpc = "wait" /\ wpc' = "wait"
        /\ mCECAdapter # "nullptr"
        /\ device.mLogicalAddressUsed # CECDEVICE_UNKNOWN)
       => /\ res' = [addr |-> device.mLogicalAddressUsed, queries |-> {}]
          /\ device' = device]_vars

\* A descriptor resolved by an earlier call has been resolved again, from
\* the cache.
C12_Witness ==
    /\ mCECAdapter # "nullptr"
    /\ device.mLogicalAddressUsed # CECDEVICE_UNKNOWN
    /\ res = [addr |-> device.mLogicalAddressUsed, queries |-> {}]

(***************************************************************************)
(* getLogical on buses with several devices at one physical address.       *)
(***************************************************************************)
\* What the adapter may report: the host active at slot 1 with physical
\* address 2.0.0.0, any of the slots 0, 4 and 15 active, each of them at
\* 1.0.0.0 or, failing that, the TV at 0.0.0.0 and the others at 2.0.0.0;
\* no slot, slot 4, or the slots 0, 1 and 4 answer a poll.
ScanBuses ==
    { [active |-> a,
       phys |-> [j \in Slots |-> IF j \notin a THEN 0
                                 ELSE IF j \in m THEN 4096
                                 ELSE IF j = 0 THEN 0 ELSE 8192],
       own |-> {1}, poll |-> pl] :
        a \in {x \cup {1} : x \in SUBSET {0, 4, 15}}, m \in SUBSET {0, 4, 15},
        pl \in {{}, {4}, {0, 1, 4}} }

\* getLogical(dev) called by the worker while connected; the adapter answers
\* from the bus as it is at that moment.
GetLogical_Scan ==
    /\ wpc = "wait"
    /\ mCECAdapter # "nullptr"
    /\ \E bus \in ScanBuses :
         LET r == getLogical(device, bus) IN
         /\ res' = [addr |-> r.addr, queries |-> r.queries]
         /\ device' = r.dev
         /\ lbus' = bus
    /\ UNCHANGED <<budget, startConn, mvars, cvars, gvars, power, mDeferredStartup, mStartManually, hpc, spc, offThread, elapsed, qvars,
                   avars, wvars, pvars, hvars, mCmdReady, mProcessedSerial, mInExec,
                   serial, child, calls, qlist, apc, nAppended>>

NextScan ==
    \/ Action_Start \/ Connect_Init \/ Connect_Open \/ GetLogical_Scan

ScanSpec == InitLogical /\ [][NextScan]_vars

\* The active slots of the bus at the physical address of the descriptor.
Matching(dev, bus) == {j \in bus.active : bus.phys[j] = dev.mPhysicalAddress}

\* A getLogical call on a descriptor with a physical address and no cached
\* address.
ScanCall ==
    /\ wpc = "wait" /\ wpc' = "wait"
    /\ mCECAdapter # "nullptr"
    /\ <<res, device, lbus>>' # <<res, device, lbus>>
    /\ device.mPhysicalAddress # 0
    /\ device.mLogicalAddressUsed = CECDEVICE_UNKNOWN

\* The result is the defined address when its slot matches, and one of the
\* matching slots when only other slots match.
ExactElseMatching ==
    LET M == Matching(device, lbus') IN
    /\ device.mLogicalAddressDefined \in M => res'.addr = device.mLogicalAddressDefined
    /\ (M # {} /\ device.mLogicalAddressDefined \notin M) => res'.addr \in M

\* C25 as stated: the defined address wins when its slot matches, else the
\* result is one of the matching slots, and the result is never an active
\* slot whose physical address differs from that of the descriptor.
C25_ScanNeverReturnsOtherSlot ==
    [][ScanCall =>
         /\ ExactElseMatching
         /\ res'.addr \in lbus'.active =>
               lbus'.phys[res'.addr] = device.mPhysicalAddress]_vars

\* C25, amended: the defined address wins when its slot matches, else the
\* result is one of the matching slots; when no slot matches the result is
\* unknown or the defined address, whose slot may be active at another
\* physical address.
C25_ExactElseMatchingElseDefined ==
    [][ScanCall =>
         /\ ExactElseMatching
         /\ Matching(device, lbus') = {} =>
               res'.addr \in {CECDEVICE_UNKNOWN, device.mLogicalAddressDefined}]_vars

\* The slot of the defined address and a later slot were both at the physical
\* address of the descriptor, and the call returned and cached the defined
\* address.
C25_Witness ==
    /\ device.mLogicalAddressDefined = 4
    /\ {4, 15} \subseteq Matching(device, lbus)
    /\ res.addr = 4
    /\ "GetDevicePhysicalAddress" \in res.queries
    /\ device.mLogicalAddressUsed = 4

\* A getLogical call on a descriptor with no cached address, on a bus none
\* of whose active slots is at the physical address of the descriptor.
FallbackCall ==
    /\ wpc = "wait" /\ wpc' = "wait"
    /\ mCECAdapter # "nullptr"
    /\ <<res, device, lbus>>' # <<res, device, lbus>>
    /\ device.mLogicalAddressUsed = CECDEVICE_UNKNOWN
    /\ Matching(device, lbus') = {}

\* C26: when no active slot is at the physical address of the descriptor,
\* getLogical returns and caches the defined address if there is one, it is
\* not one of the host's own addresses and it answers the poll; in every
\* other case it returns unknown and leaves the used address unknown.
C26_FallbackToPolledDefined ==
    [][FallbackCall =>
         IF /\ device.mLogicalAddressDefined # CECDEVICE_UNKNOWN
            /\ device.mLogicalAddressDefined \notin lbus'.own
            /\ device.mLogicalAddressDefined \in lbus'.poll
         THEN /\ res'.addr = device.mLogicalAddressDefined
              /\ device'.mLogicalAddressUsed = device.mLogicalAddressDefined
         ELSE /\ res'.addr = CECDEVICE_UNKNOWN
              /\ device'.mLogicalAddressUsed = CECDEVICE_UNKNOWN]_vars

\* No slot was at the physical address of the descriptor, the defined
\* address answered the poll, and the call cached and returned it.
C26_Witness ==
    /\ Matching(device, lbus) = {}
    /\ "PollDevice" \in res.queries
    /\ device.mLogicalAddressDefined \in lbus.poll
    /\ res.addr = device.mLogicalAddressDefined
    /\ device.mLogicalAddressUsed = device.mLogicalAddressDefined

\* C27: the used logical address of a descriptor is unknown when the
\* descriptor is created, and whenever it changes it becomes an address that
\* is active on the bus or answers a poll at that moment and is not one of
\* the host's own logical addresses.
C27_UsedAddressConfirmed ==
    /\ device.mLogicalAddressUsed = CECDEVICE_UNKNOWN
    /\ [][device'.mLogicalAddressUsed # device.mLogicalAddressUsed =>
            /\ device'.mLogicalAddressUsed \in lbus'.active \cup lbus'.poll
            /\ device'.mLogicalAddressUsed \notin lbus'.own]_vars

(***************************************************************************)
(* The power toggle of a menu.                                             *)
(***************************************************************************)
\* The engine as constructed; the toggled device is on or in standby.
InitToggle ==
    /\ Constructed
    /\ SerialIdle
    /\ CallbackIdle
    /\ lbus = BusEmpty
    /\ startConn = "none"
    /\ PollIdle
    /\ KeyIdle
    /\ MonitorIdle
    /\ power \in {"on", "standby"}
    /\ device = cCECDevice
    /\ res = NoResult
    /\ mDeferredStartup = FALSE
    /\ mStartManually = FALSE
    /\ hpc = "done"
    /\ spc = "none"
    /\ offThread = {}
    /\ elapsed = [t \in Waiters |-> [wait |-> 0, total |-> 0]]
    /\ budget = MaxCmds

\* The worker serves the menu's toggle command, which the main thread submits
\* through cPluginCecremote::ExecToggle, and the commands it replays.
NextToggle ==
    \/ Action_Start \/ Connect_Init \/ Connect_Open \/ WaitCmd
    \/ Action_ExecToggle \/ Action_Power \/ Action_MakeActive
    \/ Action_Store \/ Action_Signal
    \/ PushWaitCmd_Begin("main", "CEC_EXECTOGGLE")
    \/ PushWaitCmd_Push("main")
    \/ PushWaitCmd_Wait("main")
    \/ PushWaitCmd_Check("main")

ToggleSpec == InitToggle /\ [][NextToggle]_vars

\* The kinds of the commands of a list, in order.
Kinds(list) == [i \in 1 .. Len(list) |-> list[i].mCmd]

\* The commands a step appends to the normal queue.
Appended == SubSeq(mWorkerQueue', Len(mWorkerQueue) + 1, Len(mWorkerQueue'))

\* The worker finishes the dispatch of a toggle command whose device it has
\* resolved.
ToggleStep ==
    /\ wpc = "action"
    /\ cmd.mCmd = "CEC_EXECTOGGLE"
    /\ wpc' = "store"
    /\ addr' # CECDEVICE_UNKNOWN

====
